---------------------------- MODULE Spec2Model ----------------------------
(***************************************************************************)
(* A model of go-osc: the OSC 1.0 binary codec (arguments, messages,       *)
(* bundles, packets) and the AddressSpace registry with its dispatcher.    *)
(*                                                                         *)
(* Bytes are the integers 0..255 and a buffer is a sequence of bytes.      *)
(* A Go string is the sequence of its bytes.  Numbers wider than 31 bits   *)
(* are kept as two 16-bit limbs <<hi, lo>> (value hi * 65536 + lo, with    *)
(* lo in 0..65535 and hi signed), so that 32-bit and 64-bit wrap-around is *)
(* computed exactly.                                                       *)
(***************************************************************************)
EXTENDS Integers, Sequences, FiniteSets, TLC

(***************************************************************************)
(* ASCII codes of the characters the model writes by name.                 *)
(***************************************************************************)
ch == [ nul |-> 0, hash |-> 35, star |-> 42, comma |-> 44, dot |-> 46,
        slash |-> 47, d1 |-> 49, d2 |-> 50, qm |-> 63,
        F |-> 70, N |-> 78, T |-> 84, X |-> 88, bslash |-> 92,
        a |-> 97, b |-> 98, d |-> 100, e |-> 101, f |-> 102, h |-> 104,
        i |-> 105, l |-> 108, n |-> 110, o |-> 111, q |-> 113, r |-> 114,
        s |-> 115, t |-> 116, u |-> 117, x |-> 120, y |-> 121, z |-> 122,
        lparen |-> 40, rparen |-> 41, lbrace |-> 123, bar |-> 124,
        rbrace |-> 125, bang |-> 33, lbrack |-> 91, rbrack |-> 93,
        caret |-> 94 ]

Byte == 0..255

\* The three ways a Go call can end: a value, an error, or a run-time panic.
OK == "ok"
ERR == "err"
PANIC == "panic"

----------------------------------------------------------------------------
(***************************************************************************)
(* Fixed-width arithmetic on limbs.                                        *)
(***************************************************************************)
Limb == 256 * 256

AddL(p, q) ==
    LET lo == p[2] + q[2]
    IN  << p[1] + q[1] + (lo \div Limb), lo % Limb >>

SubL(p, q) ==
    LET lo == p[2] - q[2]
    IN  << p[1] - q[1] + (lo \div Limb), lo % Limb >>

\* Conversion to uint32 / the low 32 bits that survive `<< 32` on a uint64.
Trunc32(p) == << p[1] % Limb, p[2] >>

\* binary.BigEndian for a 32-bit word held as limbs.
BigEndian32(p) ==
    << p[1] \div 256, p[1] % 256, p[2] \div 256, p[2] % 256 >>

\* The 32-bit word read big-endian from four bytes, as limbs.
Word32(bs) == << bs[1] * 256 + bs[2], bs[3] * 256 + bs[4] >>

\* A small non-negative int as limbs, and an int32 as its two's complement.
ToLimbs(k) == << k \div Limb, k % Limb >>

\* int32(w): the signed reading of a 32-bit word.
Int32Of(w) ==
    IF w[1] >= 32768 THEN (w[1] - Limb) * Limb + w[2] ELSE w[1] * Limb + w[2]

Take(s, k) == SubSeq(s, 1, k)
Drop(s, k) == SubSeq(s, k + 1, Len(s))
Zeros(k) == [j \in 1..k |-> 0]

----------------------------------------------------------------------------
(***************************************************************************)
(* argument.go: constants and TimeTag.                                     *)
(***************************************************************************)
\* 2208988800 = 0x83AA7E80
unixOSCEpochOffset == << 33706, 32384 >>
nanosPerSecond == 1000000000
timeTagImmediate == 1

\* time.Time{}: January 1, year 1, 00:00:00 UTC = Unix second -62135596800.
ZeroTime == [sec |-> << -948114, 2304 >>, nsec |-> 0]

NewTimeTag(t) == [time |-> t, Immediate |-> FALSE]

NewImmediateTimeTag == [time |-> ZeroTime, Immediate |-> TRUE]

\* A padTo32Bits that appends a NUL even when the length is a multiple of 4.
padTo32BitsAlways(data) == data \o Zeros(4 - (Len(data) % 4))

\* padTo32Bits: append NULs up to the next multiple of 4.
padTo32Bits(data) ==
    LET origLength == Len(data)
        padLength == ((origLength + 3) \div 4) * 4
    IN  data \o Zeros(padLength - origLength)

\* An encodeString that terminates the string but does not pad it.
encodeStringUnpadded(s) == s \o << 0 >>

encodeString(s) == padTo32Bits(s \o << 0 >>)

\* A Go []byte is its bytes, or NilSlice for the nil slice.
NilSlice == << -1 >>
BytesOf(v) == IF v = NilSlice THEN << >> ELSE v

\* An encodeByteSlice that does not pad.
encodeByteSliceUnpadded(data) ==
    BigEndian32(ToLimbs(Len(BytesOf(data)))) \o BytesOf(data)

encodeByteSlice(data) ==
    padTo32Bits(BigEndian32(ToLimbs(Len(BytesOf(data)))) \o BytesOf(data))

(***************************************************************************)
(* encodeTimeTag.  timeOSCNanos is                                         *)
(*   uint64(UnixNano + offset * 1e9) - timeOSCSecs * 1e9,                  *)
(* and UnixNano = Unix * 1e9 + nsec, so it is the nanosecond remainder     *)
(* nsec (wrap-around modulo 2^64 cancels); nsec < 1e9 < 2^32, so the mask  *)
(* 0xFFFFFFFF leaves it unchanged.  `timeOSCSecs << 32` keeps the low 32   *)
(* bits of the seconds.                                                    *)
(***************************************************************************)
\* An encodeTimeTag that encodes the time field even when Immediate is set.
encodeTimeTagOfTime(tt) ==
    BigEndian32(Trunc32(AddL(tt.time.sec, unixOSCEpochOffset)))
        \o BigEndian32(ToLimbs(tt.time.nsec))

\* An encodeTimeTag that leaves out the offset between the two epochs.
encodeTimeTagUnixSeconds(tt) ==
    IF tt.Immediate
    THEN Zeros(4) \o BigEndian32(ToLimbs(timeTagImmediate))
    ELSE BigEndian32(Trunc32(tt.time.sec)) \o BigEndian32(ToLimbs(tt.time.nsec))

encodeTimeTag(tt) ==
    IF tt.Immediate
    THEN Zeros(4) \o BigEndian32(ToLimbs(timeTagImmediate))
    ELSE LET timeOSCSecs == AddL(tt.time.sec, unixOSCEpochOffset)
             timeOSCNanos == tt.time.nsec
         IN  BigEndian32(Trunc32(timeOSCSecs)) \o BigEndian32(ToLimbs(timeOSCNanos))

\* Quotient and remainder by nanosPerSecond of a 32-bit word held as limbs
\* (2^31 = 2 * 1e9 + 147483648).
DivMod(v) == << v \div nanosPerSecond, v % nanosPerSecond >>

DivModHigh(rest) ==
    << 2 + rest[1] + ((147483648 + rest[2]) \div nanosPerSecond),
       (147483648 + rest[2]) % nanosPerSecond >>

DivMod1e9(w) ==
    IF w[1] < 32768
    THEN DivMod(w[1] * Limb + w[2])
    ELSE DivModHigh(DivMod((w[1] - 32768) * Limb + w[2]))

\* time.Unix(sec, nsec): nanoseconds outside [0, 1e9) carry into seconds.
TimeCarry(sec, qr) == [sec |-> AddL(sec, << 0, qr[1] >>), nsec |-> qr[2]]

TimeUnix(sec, nsecWord) == TimeCarry(sec, DivMod1e9(nsecWord))

(***************************************************************************)
(* A decoder takes the unread bytes of a bytes.Buffer and returns          *)
(* [st, val, rest]: how the call ended, the value and the bytes left.      *)
(***************************************************************************)
Ret(st, val, rest) == [st |-> st, val |-> val, rest |-> rest]

\* A decodeTimeTag that forgets the epoch offset.
timeTagOfWordsNoOffset(hi, lo, rest) ==
    IF hi = << 0, 0 >> /\ lo = ToLimbs(timeTagImmediate)
    THEN Ret(OK, NewImmediateTimeTag, rest)
    ELSE Ret(OK, NewTimeTag(TimeUnix(hi, lo)), rest)

\* decodeTimeTag, once the 64-bit value is read as two 32-bit words.
timeTagOfWords(hi, lo, rest) ==
    IF hi = << 0, 0 >> /\ lo = ToLimbs(timeTagImmediate)
    THEN Ret(OK, NewImmediateTimeTag, rest)
    ELSE Ret(OK, NewTimeTag(TimeUnix(SubL(hi, unixOSCEpochOffset), lo)), rest)

decodeTimeTag(buf) ==
    IF Len(buf) < 8
    THEN Ret(ERR, NewTimeTag(ZeroTime), << >>)
    ELSE timeTagOfWords(Word32(SubSeq(buf, 1, 4)), Word32(SubSeq(buf, 5, 8)),
                        Drop(buf, 8))

----------------------------------------------------------------------------
(***************************************************************************)
(* argument.go: arguments.  A Go value held in an interface{} is           *)
(* [kind, val]: its dynamic type and its data, a tuple of integers: the    *)
(* number itself for an int32, 1 or 0 for a bool, the IEEE-754 or two's    *)
(* complement bytes for float32, int64 and float64, the bytes of a string  *)
(* or []byte, and <<Immediate, sec hi, sec lo, nsec>> for a TimeTag.       *)
(***************************************************************************)
GoNil == [kind |-> "nil", val |-> << >>]
GoInt32(k) == [kind |-> "int32", val |-> << k >>]
GoFloat32(bits) == [kind |-> "float32", val |-> bits]
GoString(s) == [kind |-> "string", val |-> s]
GoBytes(bs) == [kind |-> "[]byte", val |-> bs]
GoBool(v) == [kind |-> "bool", val |-> IF v THEN << 1 >> ELSE << 0 >>]
GoInt64(bits) == [kind |-> "int64", val |-> bits]
GoFloat64(bits) == [kind |-> "float64", val |-> bits]
GoTimeTag(tt) ==
    [kind |-> "TimeTag",
     val |-> << IF tt.Immediate THEN 1 ELSE 0,
                tt.time.sec[1], tt.time.sec[2], tt.time.nsec >>]
\* A host value outside the supported set (a Go int).
GoInt(k) == [kind |-> "int", val |-> << k >>]

\* The TimeTag held in an argument of kind "TimeTag".
TimeTagOf(argument) ==
    [time |-> [sec |-> << argument.val[2], argument.val[3] >>,
               nsec |-> argument.val[4]],
     Immediate |-> argument.val[1] = 1]

typeTag(argument) ==
    CASE argument.kind = "nil" -> [st |-> OK, val |-> << ch.N >>]
      [] argument.kind = "int32" -> [st |-> OK, val |-> << ch.i >>]
      [] argument.kind = "float32" -> [st |-> OK, val |-> << ch.f >>]
      [] argument.kind = "string" -> [st |-> OK, val |-> << ch.s >>]
      [] argument.kind = "[]byte" -> [st |-> OK, val |-> << ch.b >>]
      [] argument.kind = "bool" ->
            IF argument.val[1] = 1 THEN [st |-> OK, val |-> << ch.T >>]
                                   ELSE [st |-> OK, val |-> << ch.F >>]
      [] argument.kind = "int64" -> [st |-> OK, val |-> << ch.h >>]
      [] argument.kind = "float64" -> [st |-> OK, val |-> << ch.d >>]
      [] argument.kind = "TimeTag" -> [st |-> OK, val |-> << ch.t >>]
      [] OTHER -> [st |-> ERR, val |-> << >>]

encodeArgument(argument) ==
    CASE argument.kind = "nil" -> [st |-> OK, val |-> << >>]
      [] argument.kind = "int32" ->
            [st |-> OK, val |-> BigEndian32(Trunc32(ToLimbs(argument.val[1])))]
      [] argument.kind = "float32" -> [st |-> OK, val |-> argument.val]
      [] argument.kind = "string" -> [st |-> OK, val |-> encodeString(argument.val)]
      [] argument.kind = "[]byte" -> [st |-> OK, val |-> encodeByteSlice(argument.val)]
      [] argument.kind = "bool" -> [st |-> OK, val |-> << >>]
      [] argument.kind = "int64" -> [st |-> OK, val |-> argument.val]
      [] argument.kind = "float64" -> [st |-> OK, val |-> argument.val]
      [] argument.kind = "TimeTag" -> [st |-> OK, val |-> encodeTimeTag(TimeTagOf(argument))]
      [] OTHER -> [st |-> ERR, val |-> << >>]

\* strings.Trim(s, "\x00"): drop leading and trailing NULs.
RECURSIVE TrimLeftNul(_)
TrimLeftNul(s) ==
    IF s # << >> /\ Head(s) = 0 THEN TrimLeftNul(Tail(s)) ELSE s

RECURSIVE TrimRightNul(_)
TrimRightNul(s) ==
    IF s # << >> /\ s[Len(s)] = 0 THEN TrimRightNul(Take(s, Len(s) - 1)) ELSE s

TrimNul(s) == TrimRightNul(TrimLeftNul(s))

(***************************************************************************)
(* decodeString.  buf.ReadString(0) fails when no NUL is left.  In the     *)
(* padding loop buf.ReadByte() returns (0, io.EOF) on an exhausted buffer, *)
(* which passes the test b != 0; on a non-zero padding byte it returns     *)
(* (b, nil) and the error message calls err.Error() on the nil error: a    *)
(* nil dereference.                                                        *)
(***************************************************************************)
\* The padding loop: popped bytes are read from after.
popPadding(str, after, popped) ==
    IF \E j \in 1..popped : after[j] # 0
    THEN Ret(PANIC, << >>, << >>)
    ELSE Ret(OK, str, Drop(after, popped))

Min(p, q) == IF p < q THEN p ELSE q

\* stringLength = len(stringNullTerm), the terminator included.
decodeStringOfLength(buf, stringLength) ==
    popPadding(TrimNul(Take(buf, stringLength)),
               Drop(buf, stringLength),
               Min((((stringLength + 3) \div 4) * 4) - stringLength,
                   Len(buf) - stringLength))

decodeString(buf) ==
    IF \A j \in 1..Len(buf) : buf[j] # 0
    THEN Ret(ERR, << >>, << >>)
    ELSE decodeStringOfLength(buf,
            CHOOSE j \in 1..Len(buf) :
                buf[j] = 0 /\ \A k \in 1..(j - 1) : buf[k] # 0)

(***************************************************************************)
(* decodeByteSlice.  n is an int32; n + 3 wraps above 2^31 - 4.            *)
(* make([]byte, k) panics for k < 0; for n in -3..-1, nExpected is 0,      *)
(* buf.Read of zero bytes succeeds and data[:n] panics.                    *)
(***************************************************************************)
\* n + 3 in int32 arithmetic.
Add3Int32(n) ==
    IF n > 2147483644 THEN ((n - 2147483647) + 2) + (-2147483647 - 1) ELSE n + 3

\* k &^ 0x03
ClearLow2(k) == k - (k % 4)

readByteSlice(n, nExpected, after) ==
    CASE nExpected <= 0 -> Ret(PANIC, NilSlice, << >>)
      [] nExpected > 0 /\ Len(after) < nExpected -> Ret(ERR, NilSlice, << >>)
      [] OTHER -> Ret(OK, Take(after, n), Drop(after, nExpected))

decodeByteSliceOfLength(n, after) ==
    IF n = 0
    THEN Ret(OK, NilSlice, after)
    ELSE readByteSlice(n, ClearLow2(Add3Int32(n)), after)

decodeByteSlice(buf) ==
    IF Len(buf) < 4
    THEN Ret(ERR, NilSlice, << >>)
    ELSE decodeByteSliceOfLength(Int32Of(Word32(Take(buf, 4))), Drop(buf, 4))

\* binary.Read of a fixed-width value: k bytes, or an error on a short read.
ReadFixed(buf, k) ==
    IF Len(buf) < k THEN Ret(ERR, << >>, << >>)
    ELSE Ret(OK, Take(buf, k), Drop(buf, k))

\* `args = append(args, val)` for the value a sub-decoder returned.
int32Arg(r) ==
    IF r.st = OK THEN Ret(OK, GoInt32(Int32Of(Word32(r.val))), r.rest)
    ELSE Ret(r.st, GoNil, << >>)

bytesArg(kind, r) ==
    IF r.st = OK THEN Ret(OK, [kind |-> kind, val |-> r.val], r.rest)
    ELSE Ret(r.st, GoNil, << >>)

timeTagArg(r) ==
    IF r.st = OK THEN Ret(OK, GoTimeTag(r.val), r.rest)
    ELSE Ret(r.st, GoNil, << >>)

\* One tag of readArguments' switch: the decoded argument, or how it failed.
readArgument(tag, buf) ==
    CASE tag = ch.T -> Ret(OK, GoBool(TRUE), buf)
      [] tag = ch.F -> Ret(OK, GoBool(TRUE), buf)
      [] tag = ch.N -> Ret(OK, GoNil, buf)
      [] tag = ch.i -> int32Arg(ReadFixed(buf, 4))
      [] tag = ch.f -> bytesArg("float32", ReadFixed(buf, 4))
      [] tag = ch.s -> bytesArg("string", decodeString(buf))
      [] tag = ch.b -> bytesArg("[]byte", decodeByteSlice(buf))
      [] tag = ch.h -> bytesArg("int64", ReadFixed(buf, 8))
      [] tag = ch.d -> bytesArg("float64", ReadFixed(buf, 8))
      [] tag = ch.t -> timeTagArg(decodeTimeTag(buf))
      [] OTHER -> Ret(ERR, GoNil, << >>)

RECURSIVE readTags(_, _, _)
\* `if err != nil { return nil, ... }` after each tag.
readTagsNext(tags, args, r) ==
    IF r.st = OK
    THEN readTags(tags, r.rest, Append(args, r.val))
    ELSE Ret(r.st, << >>, << >>)

readTags(tags, buf, args) ==
    IF tags = << >>
    THEN Ret(OK, args, buf)
    ELSE readTagsNext(Tail(tags), args, readArgument(Head(tags), buf))

(***************************************************************************)
(* readArguments.  typeTagString[:1] is a slice expression: on the empty   *)
(* string it is out of range and panics.                                   *)
(***************************************************************************)
readArguments(typeTagString, buf) ==
    CASE typeTagString = << >> -> Ret(PANIC, << >>, << >>)
      [] typeTagString # << >> /\ Head(typeTagString) # ch.comma ->
            Ret(ERR, << >>, << >>)
      [] OTHER -> readTags(Tail(typeTagString), buf, << >>)

----------------------------------------------------------------------------
(***************************************************************************)
(* Message (message.go and its earlier variant with NewMessageFromData)    *)
(* and Bundle.  A Packet is [type, ...]: the dynamic type held in the      *)
(* interface and the fields of the value.                                  *)
(***************************************************************************)
Message(address, arguments) ==
    [type |-> "Message", Address |-> address, Arguments |-> arguments]

Bundle(timeTag, elements) ==
    [type |-> "*Bundle", TimeTag |-> timeTag, Elements |-> elements]

NilPacket == [type |-> "nil"]

NewMessage(address) == Message(address, << >>)

NewEmptyMessage == NewMessage(<< ch.slash >>)

NewBundle == Bundle([time |-> ZeroTime, Immediate |-> TRUE], << >>)

\* An AddArgument that appends without asking typeTag.
AddArgumentUnchecked(msg, arg) ==
    [st |-> OK, val |-> [msg EXCEPT !.Arguments = Append(@, arg)]]

\* Message.AddArgument: the receiver after the call and how the call ended.
AddArgument(msg, arg) ==
    IF typeTag(arg).st # OK
    THEN [st |-> ERR, val |-> msg]
    ELSE [st |-> OK, val |-> [msg EXCEPT !.Arguments = Append(@, arg)]]

\* Bundle.AddPacket
AddPacket(bun, p) == [bun EXCEPT !.Elements = Append(@, p)]

\* Two encodings one after the other; the first error ends the loop.
Join(first, more) ==
    IF first.st = OK /\ more.st = OK
    THEN [st |-> OK, val |-> first.val \o more.val]
    ELSE [st |-> ERR, val |-> << >>]

RECURSIVE tagsOf(_)
tagsOf(arguments) ==
    IF arguments = << >>
    THEN [st |-> OK, val |-> << >>]
    ELSE Join(typeTag(Head(arguments)), tagsOf(Tail(arguments)))

TypeTagString(msg) ==
    Join([st |-> OK, val |-> << ch.comma >>], tagsOf(msg.Arguments))

RECURSIVE encodeArguments(_)
encodeArguments(arguments) ==
    IF arguments = << >>
    THEN [st |-> OK, val |-> << >>]
    ELSE Join(encodeArgument(Head(arguments)), encodeArguments(Tail(arguments)))

\* buf.Write(encodeString(typeTagString))
encodeTypeTagString(typeTagString) ==
    IF typeTagString.st = OK
    THEN [st |-> OK, val |-> encodeString(typeTagString.val)]
    ELSE [st |-> ERR, val |-> << >>]

\* Message.MarshalBinary
MessageMarshalBinary(msg) ==
    Join([st |-> OK, val |-> encodeString(msg.Address)],
         Join(encodeTypeTagString(TypeTagString(msg)),
              encodeArguments(msg.Arguments)))

\* Message.UnmarshalBinary: the receiver msg is assigned only on success.
unmarshalArguments(msg, address, args) ==
    IF args.st # OK THEN [st |-> args.st, val |-> msg]
    ELSE [st |-> OK, val |-> Message(address, args.val)]

unmarshalTypeTagString(msg, address, typeTagString) ==
    IF typeTagString.st # OK THEN [st |-> typeTagString.st, val |-> msg]
    ELSE unmarshalArguments(msg, address,
            readArguments(typeTagString.val, typeTagString.rest))

unmarshalAddress(msg, address) ==
    IF address.st # OK THEN [st |-> address.st, val |-> msg]
    ELSE unmarshalTypeTagString(msg, address.val, decodeString(address.rest))

MessageUnmarshalBinary(msg, data) == unmarshalAddress(msg, decodeString(data))

\* NewMessageFromData: the blank message is filled in as decoding goes and is
\* returned beside the error; it is unmarshalling into the message that has
\* the address decoded so far.
fromDataAddress(address) ==
    IF address.st # OK THEN [st |-> address.st, val |-> Message(<< >>, << >>)]
    ELSE unmarshalTypeTagString(Message(address.val, << >>), address.val,
                                decodeString(address.rest))

NewMessageFromData(data) == fromDataAddress(decodeString(data))

bundleString == << ch.hash, ch.b, ch.u, ch.n, ch.d, ch.l, ch.e, 0 >>

\* A withCount that leaves out the count.
withoutCount(encoded) == encoded

\* count := uint32(len(encoded)), written before the child's bytes.
withCount(encoded) ==
    IF encoded.st # OK THEN encoded
    ELSE [st |-> OK,
          val |-> BigEndian32(Trunc32(ToLimbs(Len(encoded.val)))) \o encoded.val]

RECURSIVE MarshalBinary(_)
RECURSIVE marshalElements(_)
\* The loop of Bundle.MarshalBinary over the child elements.
marshalElements(elements) ==
    IF elements = << >>
    THEN [st |-> OK, val |-> << >>]
    ELSE Join(withCount(MarshalBinary(Head(elements))),
              marshalElements(Tail(elements)))

\* Bundle.MarshalBinary
BundleMarshalBinary(bun) ==
    Join([st |-> OK, val |-> bundleString \o encodeTimeTag(bun.TimeTag)],
         marshalElements(bun.Elements))

\* Packet.MarshalBinary: the interface call, by dynamic type.
MarshalBinary(p) ==
    IF p.type = "Message" THEN MessageMarshalBinary(p) ELSE BundleMarshalBinary(p)

RECURSIVE decodePacket(_)
RECURSIVE readElements(_, _)
(***************************************************************************)
(* The element loop of Bundle.UnmarshalBinary.  binary.Read of the count   *)
(* returns io.EOF only when no byte is left, which ends the loop.          *)
(* buf.Read(packetData) on an exhausted buffer returns (0, nil) for a      *)
(* zero-length packetData and io.EOF otherwise; a short read leaves        *)
(* n != count.                                                             *)
(***************************************************************************)
appendElement(p, rest, elements) ==
    IF p.st # OK THEN [st |-> p.st, val |-> << >>]
    ELSE readElements(rest, Append(elements, p.val))

readPacketData(count, after, elements) ==
    IF count > Len(after) THEN [st |-> ERR, val |-> << >>]
    ELSE appendElement(decodePacket(Take(after, count)), Drop(after, count),
                       elements)

readElement(count, after, elements) ==
    IF count[1] >= 32768 THEN [st |-> ERR, val |-> << >>]
    ELSE readPacketData(count[1] * Limb + count[2], after, elements)

readElements(buf, elements) ==
    CASE buf = << >> -> [st |-> OK, val |-> elements]
      [] buf # << >> /\ Len(buf) < 4 -> [st |-> ERR, val |-> << >>]
      [] OTHER -> readElement(Word32(Take(buf, 4)), Drop(buf, 4), elements)

\* Bundle.UnmarshalBinary: the receiver bun is assigned only on success.
unmarshalElements(bun, timeTag, elements) ==
    IF elements.st # OK THEN [st |-> elements.st, val |-> bun]
    ELSE [st |-> OK, val |-> Bundle(timeTag, elements.val)]

unmarshalTimeTag(bun, timeTag) ==
    IF timeTag.st # OK THEN [st |-> ERR, val |-> bun]
    ELSE unmarshalElements(bun, timeTag.val, readElements(timeTag.rest, << >>))

unmarshalIdentifier(bun, identifier) ==
    CASE identifier.st # OK -> [st |-> identifier.st, val |-> bun]
      [] identifier.st = OK /\ identifier.val # Take(bundleString, 7) ->
            [st |-> ERR, val |-> bun]
      [] OTHER -> unmarshalTimeTag(bun, decodeTimeTag(identifier.rest))

BundleUnmarshalBinary(bun, data) == unmarshalIdentifier(bun, decodeString(data))

NewBundleFromData(data) == BundleUnmarshalBinary(NewBundle, data)

\* `if err != nil { return nil, err }`
packetOrNil(r) ==
    IF r.st = OK THEN r ELSE [st |-> r.st, val |-> NilPacket]

\* A decodePacket without the test of the length.
decodePacketUnframed(data) ==
    IF data = << >>
    THEN [st |-> ERR, val |-> NilPacket]
    ELSE CASE data[1] = ch.slash -> packetOrNil(NewMessageFromData(data))
           [] data[1] = ch.hash -> packetOrNil(NewBundleFromData(data))
           [] OTHER -> [st |-> ERR, val |-> NilPacket]

\* decodePacket: (Packet, nil) or (nil, error); a panic below it unwinds
\* through it.
decodePacket(data) ==
    IF Len(data) <= 0 \/ Len(data) % 4 # 0
    THEN [st |-> ERR, val |-> NilPacket]
    ELSE CASE data[1] = ch.slash -> packetOrNil(NewMessageFromData(data))
           [] data[1] = ch.hash -> packetOrNil(NewBundleFromData(data))
           [] OTHER -> [st |-> ERR, val |-> NilPacket]

\* Message.Equals and Bundle.Equals: reflect.DeepEqual on the fields.
Equals(p, other) == p = other

----------------------------------------------------------------------------
(***************************************************************************)
(* address_space.go: address patterns and their regular expressions.       *)
(* (dispatcher.go holds the same code under the names messageDispatcher,   *)
(* addHandler and dispatch.)                                               *)
(*                                                                         *)
(* The regexp package is modelled for the expressions the translation      *)
(* yields from patterns written with letters, digits and / ? * { } , :     *)
(* literals, \-escapes, `.`, a single-character atom followed by `*`,      *)
(* groups and `|`.                                                         *)
(***************************************************************************)
RECURSIVE Replace(_, _, _)
\* strings.Replace(s, old, new, -1): every non-overlapping old, left to right.
Replace(s, old, new) ==
    CASE Len(s) < Len(old) -> s
      [] Len(s) >= Len(old) /\ Take(s, Len(old)) = old ->
            new \o Replace(Drop(s, Len(old)), old, new)
      [] OTHER -> << Head(s) >> \o Replace(Tail(s), old, new)

\* One instruction of a compiled expression.
Tok(k, c, star) == [k |-> k, c |-> c, star |-> star]

\* The first atom of expr and the number of characters it takes.
Atom(expr) ==
    CASE expr[1] = ch.bslash /\ Len(expr) >= 2 -> [k |-> "lit", c |-> expr[2], n |-> 2]
      [] expr[1] = ch.bslash /\ Len(expr) < 2 -> [k |-> "bad", c |-> 0, n |-> 1]
      [] expr[1] = ch.dot -> [k |-> "any", c |-> 0, n |-> 1]
      [] expr[1] = ch.lparen -> [k |-> "open", c |-> 0, n |-> 1]
      [] expr[1] = ch.rparen -> [k |-> "close", c |-> 0, n |-> 1]
      [] expr[1] = ch.bar -> [k |-> "alt", c |-> 0, n |-> 1]
      [] expr[1] = ch.star -> [k |-> "bad", c |-> 0, n |-> 1]
      [] OTHER -> [k |-> "lit", c |-> expr[1], n |-> 1]

\* Whether the atom is followed by the repetition operator.
Starred(expr, atom) ==
    /\ atom.k \in { "lit", "any" }
    /\ Len(expr) > atom.n
    /\ expr[atom.n + 1] = ch.star

RECURSIVE Tokens(_)
TokensFrom(expr, atom, starred) ==
    << Tok(atom.k, atom.c, starred) >>
        \o Tokens(Drop(expr, atom.n + (IF starred THEN 1 ELSE 0)))

TokensAfter(expr, atom) == TokensFrom(expr, atom, Starred(expr, atom))

\* The parse of an expression: its atoms in order.
Tokens(expr) == IF expr = << >> THEN << >> ELSE TokensAfter(expr, Atom(expr))

\* The number of groups open before instruction j.
Depth(prog, j) ==
    Cardinality({ k \in 1..(j - 1) : prog[k].k = "open" })
        - Cardinality({ k \in 1..(j - 1) : prog[k].k = "close" })

\* The nil *regexp.Regexp.
NilRegexp == [nil |-> TRUE, prog |-> << >>]

\* regexp.Compile on the parsed expression: "missing closing )", "unexpected )",
\* "missing argument to repetition operator" and "trailing backslash" are errors.
CompileTokens(prog) ==
    IF /\ \A j \in 1..Len(prog) : prog[j].k # "bad"
       /\ \A j \in 1..(Len(prog) + 1) : Depth(prog, j) >= 0
       /\ Depth(prog, Len(prog) + 1) = 0
    THEN [st |-> OK, val |-> [nil |-> FALSE, prog |-> prog]]
    ELSE [st |-> ERR, val |-> NilRegexp]

Compile(expr) == CompileTokens(Tokens(expr))

\* addressPatternToRegexp: seven replacements, then regexp.Compile.
addressPatternToRegexp(addressPattern) ==
    Compile(
      Replace(
        Replace(
          Replace(
            Replace(
              Replace(
                Replace(
                  Replace(addressPattern, << ch.slash >>, << ch.bslash, ch.slash >>),
                  << ch.qm >>, << ch.dot >>),
                << ch.star >>, << ch.dot, ch.star >>),
              << ch.bang, ch.lbrack >>, << ch.lbrack, ch.caret >>),
            << ch.lbrace >>, << ch.lparen >>),
          << ch.rbrace >>, << ch.rparen >>),
        << ch.comma >>, << ch.bar >>))

(***************************************************************************)
(* Regexp.MatchString reports whether the string CONTAINS a match: the     *)
(* search may start at any character and need not reach the end.  The      *)
(* program is run as an automaton whose states are instruction positions;  *)
(* the whole expression is one more group.                                 *)
(***************************************************************************)
Wrap(prog) == << Tok("open", 0, FALSE) >> \o prog \o << Tok("close", 0, FALSE) >>

\* The `)` closing the group that instruction p lies in.
GroupEnd(W, p) ==
    CHOOSE c \in (p + 1)..Len(W) :
        /\ W[c].k = "close"
        /\ Depth(W, c) = Depth(W, p)
        /\ \A e \in (p + 1)..(c - 1) :
              ~(W[e].k = "close" /\ Depth(W, e) = Depth(W, p))

\* The `)` closing the group opened at p.
GroupClose(W, p) ==
    CHOOSE c \in (p + 1)..Len(W) :
        /\ W[c].k = "close"
        /\ Depth(W, c) = Depth(W, p) + 1
        /\ \A e \in (p + 1)..(c - 1) :
              ~(W[e].k = "close" /\ Depth(W, e) = Depth(W, p) + 1)

\* Where each alternative of the group opened at p begins.
Alternatives(W, p, close) ==
    { p + 1 } \cup
    { e + 1 : e \in { j \in (p + 1)..(close - 1) :
                        W[j].k = "alt" /\ Depth(W, j) = Depth(W, p) + 1 } }

\* The positions reached from p without reading a character.
Eps(W, p) ==
    CASE W[p].k = "open" -> Alternatives(W, p, GroupClose(W, p))
      [] W[p].k = "close" -> { p + 1 }
      [] W[p].k = "alt" -> { GroupEnd(W, p) + 1 }
      [] OTHER -> IF W[p].star THEN { p + 1 } ELSE { }

RECURSIVE Closure(_, _)
ClosureStep(W, S, more) == IF more \subseteq S THEN S ELSE Closure(W, S \cup more)

Closure(W, S) ==
    ClosureStep(W, S, UNION { Eps(W, p) : p \in S \cap (1..Len(W)) })

\* Whether instruction tok reads character c.
Consumes(tok, c) == tok.k = "any" \/ (tok.k = "lit" /\ tok.c = c)

Step(W, S, c) ==
    { IF W[p].star THEN p ELSE p + 1 :
        p \in { e \in S \cap (1..Len(W)) : Consumes(W[e], c) } }

RECURSIVE Search(_, _, _)
\* S holds the positions of every match attempt begun so far.
Search(W, S, s) ==
    CASE (Len(W) + 1) \in S -> TRUE
      [] (Len(W) + 1) \notin S /\ s = << >> -> FALSE
      [] OTHER -> Search(W, Closure(W, Step(W, S, Head(s)) \cup { 1 }), Tail(s))

SearchFrom(W, s) == Search(W, Closure(W, { 1 }), s)

\* (*Regexp).MatchString on a non-nil receiver.
MatchString(re, s) == SearchFrom(Wrap(re.prog), s)

----------------------------------------------------------------------------
(***************************************************************************)
(* The codec as a state machine: a value is chosen, marshalled to the      *)
(* wire and decoded again; a received buffer may be cut short or have a    *)
(* byte overwritten before it reaches decodePacket.                        *)
(***************************************************************************)
VARIABLES
    stage,      \* "input", "wire" or "done"; "off" when the codec is not run
    input,      \* [what, v]: the value or buffer the run starts from
    wire,       \* the bytes on the wire
    edits,      \* how many times the network has changed the buffer
    op,         \* the decoding call that was made
    out,        \* its result
    methods,    \* AddressSpace.methods: the slice header [ptr, len, cap]
    heap,       \* the backing arrays of []Method, by pointer
    pc,         \* where each goroutine is in its call
    frame,      \* the locals of each goroutine's call
    calls,      \* how many calls have been made
    returned,   \* the methods of the Handle calls that returned nil, in order
    before,     \* per goroutine: the registry when its Handle call began
    tested,     \* per goroutine: the methods its Dispatch has ranged over
    invoked,    \* per goroutine: the functions its Dispatch has called
    during,     \* per goroutine: the registries that stood during its Dispatch
    client,     \* the UDPClient or TCPClient: [type, conn, connected]
    clientLog,  \* the calls made on the client, in order: [call, err, data]
    server      \* the UDPServer or TCPServer: [type, methods, loop, pending, log]

codecVars == << stage, input, wire, edits, op, out >>

spaceVars ==
    << methods, heap, pc, frame, calls, returned, before, tested, invoked, during >>

clientVars == << client, clientLog >>

serverVars == << server >>

vars == << codecVars, spaceVars, clientVars, serverVars >>

\* No server has been created.
ServerOff ==
    server = [type |-> "none", methods |-> << >>, loop |-> "none",
              pending |-> << >>, log |-> << >>]

\* No client has been created.
ClientOff ==
    /\ client = [type |-> "none", conn |-> "nil", connected |-> FALSE]
    /\ clientLog = << >>

\* Bounds of the address space runs: the goroutines, the calls they make in
\* all, and how many of those calls may begin while another is in progress.
NumGoroutines == 2
MaxCalls == 3
MaxRacing == 2

Goroutines == 1..NumGoroutines

\* Method{AddressPattern, Function, regexp}; a function is named by a
\* positive number and the nil function is 0.
Method(addressPattern, fn, re) ==
    [AddressPattern |-> addressPattern, Function |-> fn, regexp |-> re]

\* The zero value of Method, as in a freshly allocated array.
ZeroMethod == Method(<< >>, 0, NilRegexp)

\* The nil slice.
NilHeader == [ptr |-> 0, len |-> 0, cap |-> 0]

\* The nil *Message.
NilMessage == [type |-> "nil"]

ZeroFrame ==
    [call |-> "none", method |-> ZeroMethod, h |-> NilHeader, to |-> NilHeader,
     pending |-> { }, m |-> NilMessage, i |-> 0, err |-> FALSE]

\* A new AddressSpace{} and goroutines that have made no call.
SpaceEmpty ==
    /\ methods = NilHeader
    /\ heap = << >>
    /\ pc = [g \in Goroutines |-> "idle"]
    /\ frame = [g \in Goroutines |-> ZeroFrame]
    /\ calls = 0
    /\ returned = << >>
    /\ before = [g \in Goroutines |-> << >>]
    /\ tested = [g \in Goroutines |-> << >>]
    /\ invoked = [g \in Goroutines |-> << >>]
    /\ during = [g \in Goroutines |-> { }]

\* Bounds of the explored inputs.
MaxArgs == 2
MaxElems == 2
MaxEdits == 1

SeqUpTo(S, k) == UNION { [1..j -> S] : j \in 0..k }

\* 2018-01-01T00:00:00Z is Unix second 1514764800.
T2018 == [sec |-> << 23113, 31232 >>, nsec |-> 0]

TimeSet ==
    { T2018,
      [T2018 EXCEPT !.nsec = 500000000],
      [sec |-> << 0, 0 >>, nsec |-> 999999999],           \* 1970-01-01
      [sec |-> << -33707, 33152 >>, nsec |-> 0],          \* 1900-01-01, the OSC epoch
      [sec |-> << -33707, 33152 >>, nsec |-> 1],          \* 1 ns later
      [sec |-> << -33707, 33151 >>, nsec |-> 999999999],  \* 1 ns before the OSC epoch
      [sec |-> << 31829, 33151 >>, nsec |-> 999999999],   \* 2036-02-07T06:28:15.999999999Z
      [sec |-> << 31829, 33152 >>, nsec |-> 0] }          \* 2036-02-07T06:28:16Z

TimeTagSet ==
    { NewTimeTag(t) : t \in TimeSet }
        \cup { NewImmediateTimeTag, [time |-> T2018, Immediate |-> TRUE] }

AddressSet == { << ch.slash >>, << ch.slash, ch.f, ch.o, ch.o >> }

ArgSet ==
    { GoNil, GoInt32(1000), GoInt32(-1), GoFloat32(<< 67, 220, 0, 0 >>),
      GoString(<< ch.h, ch.e, ch.l, ch.l, ch.o >>),
      GoBytes(<< ch.a, ch.r, 103 >>), GoBytes(<< >>),
      GoBool(TRUE), GoBool(FALSE),
      GoInt64(<< 0, 0, 0, 20, 244, 106, 4, 0 >>),
      GoFloat64(<< 64, 36, 51, 51, 51, 51, 51, 51 >>),
      GoTimeTag(NewTimeTag([T2018 EXCEPT !.nsec = 500000000])) }

\* The values handed to AddArgument: the supported ones and a Go int.
ValueSet == ArgSet \cup { GoInt(7) }

MessageSet ==
    { Message(a, args) : a \in AddressSet, args \in SeqUpTo(ArgSet, MaxArgs) }

\* A Message whose exported Arguments field was given a value of an
\* unsupported type (a Go int); its MarshalBinary fails.
UnsupportedMessage == Message(<< ch.slash, ch.a >>, << GoInt32(1000), GoInt(7) >>)

\* The children bundles are built from: four messages and three bundles.
LeafSet ==
    { NewEmptyMessage,
      Message(<< ch.slash, ch.f, ch.o, ch.o >>, << GoBytes(<< ch.a, ch.r, 103 >>) >>),
      Message(<< ch.slash, ch.a >>, << GoBool(FALSE), GoInt32(-1) >>),
      UnsupportedMessage }

InnerBundleSet ==
    { NewBundle,
      Bundle(NewTimeTag([T2018 EXCEPT !.nsec = 500000000]), << NewEmptyMessage >>),
      Bundle(NewImmediateTimeTag, << NewEmptyMessage, UnsupportedMessage >>) }

BundleSet ==
    { Bundle(tt, es) :
        tt \in { NewImmediateTimeTag, NewTimeTag(T2018) },
        es \in SeqUpTo(LeafSet \cup InnerBundleSet, MaxElems) }

\* Buffers received from the network, before any cut or overwrite.
ReceivedSet ==
    { << >>,
      << ch.slash, 0, 0, 0, ch.comma, 0, 0, 0 >>,
      << ch.slash, 0, 0, 0, ch.comma, ch.b, 0, 0, 0, 0, 0, 3, ch.a, ch.r, 103, 0 >>,
      << ch.slash, ch.a, 0, 0, ch.comma, ch.s, ch.i, 0, ch.x, 0, 0, 0, 0, 0, 0, 7 >>,
      bundleString \o encodeTimeTag(NewImmediateTimeTag),
      bundleString \o encodeTimeTag(NewImmediateTimeTag)
          \o << 0, 0, 0, 8, ch.slash, 0, 0, 0, ch.comma, 0, 0, 0 >> }

\* Buffers positioned at a field inside a packet: type-tag strings with the
\* payloads after them, strings and blobs.
FieldSet ==
    { << ch.comma, 0, 0, 0 >>,
      << ch.comma, ch.s, ch.i, 0, ch.x, 0, 0, 0, 0, 0, 0, 7 >>,
      << ch.comma, ch.b, 0, 0, 0, 0, 0, 3, ch.a, ch.r, 103, 0 >>,
      << ch.h, ch.e, ch.l, ch.l, ch.o, 0, 0, 0 >>,
      << 0, 0, 0, 3, ch.a, ch.r, 103, 0 >>,
      << 0, 0, 0, 5, ch.h, ch.e, ch.l, ch.l, ch.o, 0, 0, 0, ch.comma, 0, 0, 0 >>,
      << 0, 0, 0, 0 >> }

\* The byte values an overwrite may write.
EditBytes == { 0, ch.slash, ch.hash, ch.X, 255 }

NoResult == [st |-> "none"]

CodecInit ==
    /\ stage = "input"
    /\ \/ \E m \in MessageSet : input = [what |-> "message", v |-> m]
       \/ \E b \in BundleSet : input = [what |-> "bundle", v |-> b]
       \/ \E tt \in TimeTagSet : input = [what |-> "timetag", v |-> tt]
       \/ \E bs \in ReceivedSet : input = [what |-> "received", v |-> bs]
       \/ \E bs \in FieldSet : input = [what |-> "field", v |-> bs]
    /\ wire = << >>
    /\ edits = 0
    /\ op = "none"
    /\ out = NoResult
    /\ SpaceEmpty
    /\ ClientOff
    /\ ServerOff

\* The bytes go on the wire unless marshalling failed.
Sent(data) ==
    IF data.st = OK
    THEN stage' = "wire" /\ wire' = data.val /\ UNCHANGED << op, out >>
    ELSE stage' = "done" /\ wire' = << >> /\ op' = "MarshalBinary" /\ out' = data

\* A Message or Bundle is marshalled for sending (Packet.MarshalBinary).
Marshal ==
    /\ stage = "input"
    /\ input.what \in { "message", "bundle" }
    /\ Sent(MarshalBinary(input.v))
    /\ UNCHANGED << input, edits >>
    /\ UNCHANGED << spaceVars, clientVars, serverVars >>

\* msg.AddArgument(arg) on the Message that is about to be sent; out keeps
\* the receiver as it was before the call and the value passed.
CallAddArgument ==
    /\ stage = "input"
    /\ input.what = "message"
    /\ Len(input.v.Arguments) < MaxArgs
    /\ \E arg \in ValueSet :
          /\ input' = [input EXCEPT !.v = AddArgument(input.v, arg).val]
          /\ out' = [st |-> AddArgument(input.v, arg).st, val |-> << >>,
                     msg |-> input.v, arg |-> arg]
    /\ op' = "AddArgument"
    /\ UNCHANGED << stage, wire, edits >>
    /\ UNCHANGED << spaceVars, clientVars, serverVars >>

\* A TimeTag is encoded.
EncodeTimeTag ==
    /\ stage = "input"
    /\ input.what = "timetag"
    /\ stage' = "wire"
    /\ wire' = encodeTimeTag(input.v)
    /\ UNCHANGED << input, edits, op, out >>
    /\ UNCHANGED << spaceVars, clientVars, serverVars >>

\* A buffer arrives from the network.
Receive ==
    /\ stage = "input"
    /\ input.what \in { "received", "field" }
    /\ stage' = "wire"
    /\ wire' = input.v
    /\ UNCHANGED << input, edits, op, out >>
    /\ UNCHANGED << spaceVars, clientVars, serverVars >>

\* The network delivers only the first k bytes.
Truncate ==
    /\ stage = "wire"
    /\ input.what \in { "received", "field" }
    /\ edits < MaxEdits
    /\ \E k \in 0..(Len(wire) - 1) : wire' = Take(wire, k)
    /\ edits' = edits + 1
    /\ UNCHANGED << stage, input, op, out >>
    /\ UNCHANGED << spaceVars, clientVars, serverVars >>

\* One byte of the buffer arrives changed.
Corrupt ==
    /\ stage = "wire"
    /\ input.what \in { "received", "field" }
    /\ edits < MaxEdits
    /\ \E j \in 1..Len(wire), b \in EditBytes :
          /\ wire[j] # b
          /\ wire' = [wire EXCEPT ![j] = b]
    /\ edits' = edits + 1
    /\ UNCHANGED << stage, input, op, out >>
    /\ UNCHANGED << spaceVars, clientVars, serverVars >>

\* decodePacket on the buffer, as the transports call it.
DecodePacket ==
    /\ stage = "wire"
    /\ input.what \in { "message", "bundle", "received" }
    /\ stage' = "done"
    /\ op' = "decodePacket"
    /\ out' = decodePacket(wire)
    /\ UNCHANGED << input, wire, edits >>
    /\ UNCHANGED << spaceVars, clientVars, serverVars >>

\* Message.UnmarshalBinary on a zero-valued receiver.
UnmarshalMessage ==
    /\ stage = "wire"
    /\ input.what = "message"
    /\ stage' = "done"
    /\ op' = "Message.UnmarshalBinary"
    /\ out' = MessageUnmarshalBinary(Message(<< >>, << >>), wire)
    /\ UNCHANGED << input, wire, edits >>
    /\ UNCHANGED << spaceVars, clientVars, serverVars >>

\* NewBundleFromData: Bundle.UnmarshalBinary on a new Bundle.
UnmarshalBundle ==
    /\ stage = "wire"
    /\ input.what = "bundle"
    /\ stage' = "done"
    /\ op' = "Bundle.UnmarshalBinary"
    /\ out' = NewBundleFromData(wire)
    /\ UNCHANGED << input, wire, edits >>
    /\ UNCHANGED << spaceVars, clientVars, serverVars >>

\* A Message and a Bundle that already hold data when they are unmarshalled
\* into.
PreviousMessage ==
    Message(<< ch.slash, ch.o, ch.l, ch.d >>, << GoInt32(1000) >>)

PreviousBundle == Bundle(NewTimeTag(T2018), << NewEmptyMessage >>)

\* msg.UnmarshalBinary(data) on a received buffer, msg holding data.
UnmarshalIntoMessage ==
    /\ stage = "wire"
    /\ input.what = "received"
    /\ stage' = "done"
    /\ op' = "msg.UnmarshalBinary"
    /\ out' = MessageUnmarshalBinary(PreviousMessage, wire)
    /\ UNCHANGED << input, wire, edits >>
    /\ UNCHANGED << spaceVars, clientVars, serverVars >>

\* NewMessageFromData(data) on a received buffer.
MessageFromData ==
    /\ stage = "wire"
    /\ input.what = "received"
    /\ stage' = "done"
    /\ op' = "NewMessageFromData"
    /\ out' = NewMessageFromData(wire)
    /\ UNCHANGED << input, wire, edits >>
    /\ UNCHANGED << spaceVars, clientVars, serverVars >>

\* bun.UnmarshalBinary(data) on a received buffer, bun holding data.
UnmarshalIntoBundle ==
    /\ stage = "wire"
    /\ input.what = "received"
    /\ stage' = "done"
    /\ op' = "bun.UnmarshalBinary"
    /\ out' = BundleUnmarshalBinary(PreviousBundle, wire)
    /\ UNCHANGED << input, wire, edits >>
    /\ UNCHANGED << spaceVars, clientVars, serverVars >>

\* padTo32Bits on the buffer.
PadTo32Bits ==
    /\ stage = "wire"
    /\ input.what \in { "received", "field" }
    /\ stage' = "done"
    /\ op' = "padTo32Bits"
    /\ out' = [st |-> OK, val |-> padTo32Bits(wire)]
    /\ UNCHANGED << input, wire, edits >>
    /\ UNCHANGED << spaceVars, clientVars, serverVars >>

\* decodeTimeTag on the encoded bytes.
DecodeTimeTag ==
    /\ stage = "wire"
    /\ input.what = "timetag"
    /\ stage' = "done"
    /\ op' = "decodeTimeTag"
    /\ out' = decodeTimeTag(wire)
    /\ UNCHANGED << input, wire, edits >>
    /\ UNCHANGED << spaceVars, clientVars, serverVars >>

\* decodeString on the buffer.
DecodeString ==
    /\ stage = "wire"
    /\ input.what = "field"
    /\ stage' = "done"
    /\ op' = "decodeString"
    /\ out' = decodeString(wire)
    /\ UNCHANGED << input, wire, edits >>
    /\ UNCHANGED << spaceVars, clientVars, serverVars >>

\* decodeByteSlice on the buffer.
DecodeByteSlice ==
    /\ stage = "wire"
    /\ input.what = "field"
    /\ stage' = "done"
    /\ op' = "decodeByteSlice"
    /\ out' = decodeByteSlice(wire)
    /\ UNCHANGED << input, wire, edits >>
    /\ UNCHANGED << spaceVars, clientVars, serverVars >>

\* The result of readArguments beside the type-tag string it was given.
withTags(r, typeTagString) ==
    [st |-> r.st, val |-> r.val, rest |-> r.rest, tags |-> typeTagString]

\* readArguments as Message.UnmarshalBinary calls it: with the type-tag
\* string that decodeString read and the buffer positioned after it.
ReadArguments ==
    /\ stage = "wire"
    /\ input.what = "field"
    /\ \E typeTagString \in { decodeString(wire) } :
          /\ typeTagString.st = OK
          /\ out' = withTags(readArguments(typeTagString.val, typeTagString.rest),
                             typeTagString.val)
    /\ stage' = "done"
    /\ op' = "readArguments"
    /\ UNCHANGED << input, wire, edits >>
    /\ UNCHANGED << spaceVars, clientVars, serverVars >>

CodecNext ==
    \/ CallAddArgument
    \/ Marshal
    \/ EncodeTimeTag
    \/ Receive
    \/ Truncate
    \/ Corrupt
    \/ DecodePacket
    \/ UnmarshalMessage
    \/ UnmarshalBundle
    \/ UnmarshalIntoMessage
    \/ MessageFromData
    \/ UnmarshalIntoBundle
    \/ PadTo32Bits
    \/ DecodeTimeTag
    \/ DecodeString
    \/ DecodeByteSlice
    \/ ReadArguments

SpecCodec == CodecInit /\ [][CodecNext]_vars

----------------------------------------------------------------------------
(***************************************************************************)
(* The AddressSpace as a state machine.  Goroutines call Handle and        *)
(* Dispatch on one AddressSpace; the code takes no lock, so the calls      *)
(* interleave at their reads and writes of a.methods and of the backing    *)
(* array.  `a.methods = append(a.methods, method)` loads the slice header, *)
(* grows the array when len = cap, and then writes the three words of the  *)
(* new element and the new header; without synchronisation another         *)
(* goroutine may observe those four writes in any order.                   *)
(***************************************************************************)
PatternSet ==
    { << ch.slash, ch.f, ch.o, ch.o, ch.slash, ch.qm >>,        \* /foo/?
      << ch.slash, ch.f, ch.o, ch.o, ch.slash, ch.star >>,      \* /foo/*
      << ch.slash, ch.a, ch.slash, ch.lbrace, ch.x, ch.comma,
         ch.y, ch.comma, ch.z, ch.rbrace >>,                    \* /a/{x,y,z}
      << ch.slash, ch.lbrace, ch.a >> }                         \* /{a

DispatchSet ==
    { NilMessage } \cup
    { NewMessage(a) : a \in
        { << ch.slash, ch.f, ch.o, ch.o, ch.slash, ch.d1 >>,          \* /foo/1
          << ch.slash, ch.f, ch.o, ch.o, ch.slash, ch.d1, ch.d2 >>,   \* /foo/12
          << ch.slash, ch.f, ch.o, ch.o, ch.slash, ch.b, ch.a, ch.r >>, \* /foo/bar
          << ch.slash, ch.a, ch.slash, ch.x >>,                       \* /a/x
          << ch.slash, ch.a, ch.slash, ch.y >>,                       \* /a/y
          << ch.slash, ch.a, ch.slash, ch.q >> } }                    \* /a/q

\* AddressSpace.Methods(): the elements the slice header gives access to.
Methods ==
    IF methods.ptr = 0 THEN << >> ELSE Take(heap[methods.ptr], methods.len)

\* A panic in any goroutine ends the program.
Crashed == \E g \in Goroutines : pc[g] = "panic"

\* No call is in progress.
Quiescent == \A g \in Goroutines : pc[g] = "idle"

\* The bound on the calls explored.
MayCall == calls < MaxCalls /\ (Quiescent \/ calls < MaxRacing)

SpaceInit ==
    /\ SpaceEmpty
    /\ ClientOff
    /\ ServerOff
    /\ stage = "off"
    /\ input = [what |-> "none", v |-> << >>]
    /\ wire = << >>
    /\ edits = 0
    /\ op = "none"
    /\ out = NoResult

\* Handle after addressPatternToRegexp: `if err != nil { return err }`, else
\* the method is built.
HandleCompiled(g, addressPattern, fn, compiled) ==
    IF compiled.st # OK
    THEN /\ frame' = [frame EXCEPT ![g] =
                        [ZeroFrame EXCEPT !.call = "Handle", !.err = TRUE,
                            !.method = Method(addressPattern, fn, NilRegexp)]]
         /\ UNCHANGED pc
    ELSE /\ frame' = [frame EXCEPT ![g] =
                        [ZeroFrame EXCEPT !.call = "Handle",
                            !.method = Method(addressPattern, fn, compiled.val)]]
         /\ pc' = [pc EXCEPT ![g] = "append"]

\* Goroutine g calls a.Handle(addressPattern, fn).
Handle(g) ==
    /\ ~Crashed
    /\ pc[g] = "idle"
    /\ MayCall
    /\ \E addressPattern \in PatternSet :
          HandleCompiled(g, addressPattern, calls + 1,
                         addressPatternToRegexp(addressPattern))
    /\ calls' = calls + 1
    /\ before' = [before EXCEPT ![g] = Methods]
    /\ tested' = [tested EXCEPT ![g] = << >>]
    /\ invoked' = [invoked EXCEPT ![g] = << >>]
    /\ during' = [during EXCEPT ![g] = { }]
    /\ UNCHANGED << codecVars, clientVars, serverVars, methods, heap, returned >>

\* growslice: the capacity of the array that replaces a full one.
NewCap(cap) == IF cap = 0 THEN 1 ELSE 2 * cap

\* append loads a.methods; a full array is replaced by a copy with room.
HandleLoad(g) ==
    /\ ~Crashed
    /\ pc[g] = "append"
    /\ IF methods.len < methods.cap
       THEN /\ frame' = [frame EXCEPT ![g].h = methods,
                            ![g].to = [methods EXCEPT !.len = @ + 1],
                            ![g].pending =
                                { "AddressPattern", "Function", "regexp", "methods" }]
            /\ UNCHANGED heap
       ELSE /\ heap' = Append(heap,
                    [j \in 1..NewCap(methods.cap) |->
                        IF j <= methods.len THEN heap[methods.ptr][j]
                        ELSE ZeroMethod])
            /\ frame' = [frame EXCEPT ![g].h = methods,
                            ![g].to = [ptr |-> Len(heap) + 1,
                                       len |-> methods.len + 1,
                                       cap |-> NewCap(methods.cap)],
                            ![g].pending =
                                { "AddressPattern", "Function", "regexp", "methods" }]
    /\ pc' = [pc EXCEPT ![g] = "store"]
    /\ UNCHANGED << codecVars, clientVars, serverVars, methods, calls, returned, before, tested,
                    invoked, during >>

\* One of the writes of the append takes effect; after the last, Handle
\* returns nil.
HandleStore(g) ==
    /\ ~Crashed
    /\ pc[g] = "store"
    /\ \E w \in frame[g].pending :
          /\ IF w = "methods"
             THEN methods' = frame[g].to /\ UNCHANGED heap
             ELSE /\ heap' = [heap EXCEPT
                        ![frame[g].to.ptr][frame[g].to.len][w] = frame[g].method[w]]
                  /\ UNCHANGED methods
          /\ IF frame[g].pending = { w }
             THEN /\ pc' = [pc EXCEPT ![g] = "idle"]
                  /\ returned' = Append(returned, frame[g].method)
                  /\ frame' = [frame EXCEPT ![g] =
                                  [ZeroFrame EXCEPT !.call = "Handle",
                                                    !.method = frame[g].method]]
             ELSE /\ frame' = [frame EXCEPT ![g].pending = @ \ { w }]
                  /\ UNCHANGED << pc, returned >>
    /\ during' = [d \in Goroutines |->
                    IF pc[d] = "range" THEN during[d] \cup { Methods' }
                    ELSE during[d]]
    /\ UNCHANGED << codecVars, clientVars, serverVars, calls, before, tested, invoked >>

\* Goroutine g calls a.Dispatch(m): the receiver is passed by value, so the
\* slice header is copied at the call; a nil m returns at once.
Dispatch(g) ==
    /\ ~Crashed
    /\ pc[g] = "idle"
    /\ MayCall
    /\ \E m \in DispatchSet :
          /\ frame' = [frame EXCEPT ![g] =
                          [ZeroFrame EXCEPT !.call = "Dispatch", !.m = m,
                              !.h = IF m.type = "nil" THEN NilHeader ELSE methods]]
          /\ pc' = [pc EXCEPT ![g] = IF m.type = "nil" THEN "idle" ELSE "range"]
    /\ calls' = calls + 1
    /\ tested' = [tested EXCEPT ![g] = << >>]
    /\ invoked' = [invoked EXCEPT ![g] = << >>]
    /\ during' = [during EXCEPT ![g] = { Methods }]
    /\ UNCHANGED << codecVars, clientVars, serverVars, methods, heap, returned, before >>

\* The body of the range loop for the element h: MatchString on a nil
\* *Regexp and a call of a nil function both panic.
Visit(g, h) ==
    /\ tested' = [tested EXCEPT ![g] = Append(@, h)]
    /\ CASE h.regexp.nil ->
              pc' = [pc EXCEPT ![g] = "panic"] /\ UNCHANGED << frame, invoked >>
         [] ~h.regexp.nil /\ ~MatchString(h.regexp, frame[g].m.Address) ->
              /\ frame' = [frame EXCEPT ![g].i = @ + 1]
              /\ UNCHANGED << pc, invoked >>
         [] OTHER ->
              IF h.Function = 0
              THEN pc' = [pc EXCEPT ![g] = "panic"] /\ UNCHANGED << frame, invoked >>
              ELSE /\ invoked' = [invoked EXCEPT ![g] = Append(@, h.Function)]
                   /\ frame' = [frame EXCEPT ![g].i = @ + 1]
                   /\ UNCHANGED pc

\* `for _, h := range a.methods`: the next element is copied and tested.
DispatchRange(g) ==
    /\ ~Crashed
    /\ pc[g] = "range"
    /\ frame[g].i < frame[g].h.len
    /\ Visit(g, heap[frame[g].h.ptr][frame[g].i + 1])
    /\ UNCHANGED << codecVars, clientVars, serverVars, methods, heap, calls, returned, before, during >>

\* The range loop is over and Dispatch returns.
DispatchReturn(g) ==
    /\ ~Crashed
    /\ pc[g] = "range"
    /\ frame[g].i = frame[g].h.len
    /\ pc' = [pc EXCEPT ![g] = "idle"]
    /\ frame' = [frame EXCEPT ![g] =
                    [ZeroFrame EXCEPT !.call = "Dispatch", !.m = frame[g].m]]
    /\ UNCHANGED << codecVars, clientVars, serverVars, methods, heap, calls, returned, before,
                    tested, invoked, during >>

Next ==
    \E g \in Goroutines :
        \/ Handle(g)
        \/ HandleLoad(g)
        \/ HandleStore(g)
        \/ Dispatch(g)
        \/ DispatchRange(g)
        \/ DispatchReturn(g)

Spec == SpaceInit /\ [][Next]_vars

\* Calls that do not overlap: a call begins only when none is in progress.
SerialHandle(g) == Quiescent /\ Handle(g)

SerialDispatch(g) == Quiescent /\ Dispatch(g)

SerialNext ==
    \E g \in Goroutines :
        \/ SerialHandle(g)
        \/ HandleLoad(g)
        \/ HandleStore(g)
        \/ SerialDispatch(g)
        \/ DispatchRange(g)
        \/ DispatchReturn(g)

SpecSerial == SpaceInit /\ [][SerialNext]_vars

----------------------------------------------------------------------------
(***************************************************************************)
(* client.go: UDPClient and TCPClient.  conn is "nil" before any Connect,  *)
(* "open" after a successful dial and "closed" once Close has been called  *)
(* on it.  The methods of a nil or closed *net.UDPConn / *net.TCPConn      *)
(* return an error.  Whether a dial or a write on an open connection       *)
(* succeeds is the network's choice.  The goroutine that TCPClient.Connect *)
(* starts (responseReaderLoop) reads c.conn and writes no field of the     *)
(* client.                                                                 *)
(***************************************************************************)
\* How many calls are made on the client.
MaxClientCalls == 3

NewUDPClient == [type |-> "*UDPClient", conn |-> "nil", connected |-> FALSE]

NewTCPClient == [type |-> "*TCPClient", conn |-> "nil", connected |-> FALSE]

\* UDPClient.IsConnected and TCPClient.IsConnected: the same expression.
IsConnected(c) == c.conn # "nil" /\ c.connected

\* A call returns [st, val, data]: the error, the client after the call and
\* the bytes written to the connection.
UDPClientConnect(c, dialFails) ==
    IF dialFails
    THEN [st |-> ERR, val |-> c, data |-> << >>]
    ELSE [st |-> OK, val |-> [c EXCEPT !.conn = "open", !.connected = TRUE],
          data |-> << >>]

TCPClientConnect(c, dialFails) ==
    IF dialFails
    THEN [st |-> ERR, val |-> c, data |-> << >>]
    ELSE [st |-> OK, val |-> [c EXCEPT !.conn = "open"], data |-> << >>]

\* c.conn.Close()
connClose(c) ==
    IF c.conn = "open"
    THEN [st |-> OK, val |-> [c EXCEPT !.conn = "closed"], data |-> << >>]
    ELSE [st |-> ERR, val |-> c, data |-> << >>]

UDPClientDisconnect(c) ==
    IF IsConnected(c) THEN connClose(c)
    ELSE [st |-> OK, val |-> c, data |-> << >>]

TCPClientDisconnect(c) == connClose(c)

\* c.conn.Write(data)
connWrite(c, data, writeFails) ==
    IF c.conn = "open" /\ ~writeFails
    THEN [st |-> OK, val |-> c, data |-> data]
    ELSE [st |-> ERR, val |-> c, data |-> << >>]

\* Send after p.MarshalBinary().
udpSendEncoded(c, encoded, writeFails) ==
    IF encoded.st # OK THEN [st |-> ERR, val |-> c, data |-> << >>]
    ELSE connWrite(c, encoded.val, writeFails)

UDPClientSend(c, p, writeFails) ==
    IF ~IsConnected(c) THEN [st |-> ERR, val |-> c, data |-> << >>]
    ELSE udpSendEncoded(c, MarshalBinary(p), writeFails)

\* The packet is written after its big-endian 32-bit byte count.
tcpSendEncoded(c, packetEnc, writeFails) ==
    IF packetEnc.st # OK THEN [st |-> ERR, val |-> c, data |-> << >>]
    ELSE connWrite(c, BigEndian32(Trunc32(ToLimbs(Len(packetEnc.val))))
                          \o packetEnc.val, writeFails)

TCPClientSend(c, p, writeFails) == tcpSendEncoded(c, MarshalBinary(p), writeFails)

\* The Client interface: the call goes to the method of the dynamic type.
ClientConnect(c, dialFails) ==
    IF c.type = "*UDPClient" THEN UDPClientConnect(c, dialFails)
    ELSE TCPClientConnect(c, dialFails)

ClientDisconnect(c) ==
    IF c.type = "*UDPClient" THEN UDPClientDisconnect(c) ELSE TCPClientDisconnect(c)

ClientSend(c, p, writeFails) ==
    IF c.type = "*UDPClient" THEN UDPClientSend(c, p, writeFails)
    ELSE TCPClientSend(c, p, writeFails)

\* The packets handed to Send.
SendSet == { NewEmptyMessage, UnsupportedMessage, NewBundle }

\* NewUDPClient or NewTCPClient has returned a client.
ClientInit ==
    /\ client \in { NewUDPClient, NewTCPClient }
    /\ clientLog = << >>
    /\ SpaceEmpty
    /\ stage = "off"
    /\ input = [what |-> "none", v |-> << >>]
    /\ wire = << >>
    /\ edits = 0
    /\ op = "none"
    /\ out = NoResult
    /\ ServerOff

\* The call is made: the client is as the method leaves it and the log
\* gains the call, whether it returned an error and what it wrote.
Called(call, r) ==
    /\ client' = r.val
    /\ clientLog' = Append(clientLog,
                           [call |-> call, err |-> r.st # OK, data |-> r.data])
    /\ UNCHANGED << codecVars, spaceVars, serverVars >>

Connect ==
    /\ Len(clientLog) < MaxClientCalls
    /\ \E dialFails \in BOOLEAN : Called("Connect", ClientConnect(client, dialFails))

Disconnect ==
    /\ Len(clientLog) < MaxClientCalls
    /\ Called("Disconnect", ClientDisconnect(client))

Send ==
    /\ Len(clientLog) < MaxClientCalls
    /\ \E p \in SendSet, writeFails \in BOOLEAN :
          Called("Send", ClientSend(client, p, writeFails))

ClientNext == Connect \/ Disconnect \/ Send

SpecClient == ClientInit /\ [][ClientNext]_vars

----------------------------------------------------------------------------
(***************************************************************************)
(* The servers.  StartListening starts the listening loop in a goroutine;  *)
(* the loop reads into a 4096-byte buffer and starts one goroutine per     *)
(* read that runs handleIncomingData on buf[:n].  A panic in any goroutine *)
(* ends the process, and with it the loop.                                 *)
(***************************************************************************)
MaxDatagrams == 2
MaxHandlers == 2

\* NewUDPServer and NewTCPServer: the embedded AddressSpace is empty.
NewUDPServer ==
    [type |-> "*UDPServer", methods |-> << >>, loop |-> "created",
     pending |-> << >>, log |-> << >>]

NewTCPServer ==
    [type |-> "*TCPServer", methods |-> << >>, loop |-> "created",
     pending |-> << >>, log |-> << >>]

\* A client of the server's transport that is ready to write.
PeerOf(s) ==
    IF s.type = "*UDPServer"
    THEN [type |-> "*UDPClient", conn |-> "open", connected |-> TRUE]
    ELSE [type |-> "*TCPClient", conn |-> "open", connected |-> FALSE]

\* The packets a peer sends to the server, and the reads that no Send of this
\* library produces: an empty datagram, two bytes, and an address followed
\* by a type-tag string that is empty.
ServedSet ==
    { NewMessage(<< ch.slash, ch.f, ch.o, ch.o, ch.slash, ch.d1 >>),
      Message(<< ch.slash, ch.a, ch.slash, ch.x >>, << GoInt32(1000) >>),
      NewBundle }

ForeignSet == { << >>, << ch.slash, 0 >>, << ch.slash, 0, 0, 0, 0, 0, 0, 0 >> }

\* The patterns the server's owner registers.
ServedPatternSet ==
    { << ch.slash, ch.f, ch.o, ch.o, ch.slash, ch.star >>,
      << ch.slash, ch.a, ch.slash, ch.lbrace, ch.x, ch.comma, ch.y, ch.comma,
         ch.z, ch.rbrace >>,
      << ch.slash, ch.lbrace, ch.a >> }

RECURSIVE dispatchRange(_, _)
\* AddressSpace.Dispatch(m) on the server's own registry: the functions that
\* the range loop calls, in order.
dispatchRange(registry, m) ==
    IF registry = << >> THEN << >>
    ELSE (IF MatchString(Head(registry).regexp, m.Address)
          THEN << Head(registry).Function >> ELSE << >>)
            \o dispatchRange(Tail(registry), m)

\* One run of handleIncomingData: the bytes read, the bytes given to
\* decodePacket, its result, the messages given to Dispatch and the handler
\* functions that ran.
Handled(st, sent, data, sliced, decoded, dispatched, ran) ==
    [st |-> st, sent |-> sent, data |-> data, sliced |-> sliced,
     decoded |-> decoded, dispatched |-> dispatched, ran |-> ran]

\* The type switch on the decoded packet: case *Message dispatches, case
\* *Bundle prints, and a packet of any other dynamic type falls through.
typeSwitch(registry, sent, data, sliced, p) ==
    IF p.st = PANIC THEN Handled(PANIC, sent, data, sliced, p, << >>, << >>)
    ELSE IF p.st = ERR THEN Handled(OK, sent, data, sliced, p, << >>, << >>)
    ELSE IF p.val.type = "*Message"
         THEN Handled(OK, sent, data, sliced, p, << p.val >>,
                      dispatchRange(registry, p.val))
    ELSE Handled(OK, sent, data, sliced, p, << >>, << >>)

\* UDPServer.handleIncomingData decodes the whole datagram.
udpHandleIncomingData(registry, sent, data) ==
    typeSwitch(registry, sent, data, data, decodePacket(data))

\* The last three bytes of data; data[len(data)-3:] panics on a shorter read.
lastThree(data) == Drop(data, Len(data) - 3)

\* TCPServer.handleIncomingData reads the count from data[:4], which lies
\* within the capacity of the buffer whatever was read, and gives decodePacket
\* data[len(data)-3:].
tcpHandleIncomingData(registry, sent, data) ==
    IF Len(data) < 3
    THEN Handled(PANIC, sent, data, << >>, [st |-> PANIC, val |-> NilPacket],
                 << >>, << >>)
    ELSE typeSwitch(registry, sent, data, lastThree(data),
                    decodePacket(lastThree(data)))

handleIncomingData(s, sent, data) ==
    IF s.type = "*UDPServer" THEN udpHandleIncomingData(s.methods, sent, data)
    ELSE tcpHandleIncomingData(s.methods, sent, data)

\* AddressSpace.Handle on the embedded AddressSpace: the method is appended
\* when the pattern compiles.
serverHandle(s, addressPattern, fn, compiled) ==
    IF compiled.st # OK THEN s
    ELSE [s EXCEPT !.methods = Append(@, Method(addressPattern, fn, compiled.val))]

ServerInit ==
    /\ stage = "off"
    /\ input = [what |-> "none"]
    /\ wire = << >>
    /\ edits = 0
    /\ op = "none"
    /\ out = NoResult
    /\ SpaceEmpty
    /\ ClientOff
    /\ server \in { NewUDPServer, NewTCPServer }

\* The owner registers a handler before the server listens.
ServerHandle ==
    /\ server.loop = "created"
    /\ Len(server.methods) < MaxHandlers
    /\ \E addressPattern \in ServedPatternSet :
          server' = serverHandle(server, addressPattern, Len(server.methods) + 1,
                                 addressPatternToRegexp(addressPattern))
    /\ UNCHANGED << codecVars, spaceVars, clientVars >>

\* StartListening: the listening goroutine is started.
StartListening ==
    /\ server.loop = "created"
    /\ server' = [server EXCEPT !.loop = "listening"]
    /\ UNCHANGED << codecVars, spaceVars, clientVars >>

\* Read returns what a peer's Send wrote and the loop starts a handler
\* goroutine for it.
ListenSent ==
    /\ server.loop = "listening"
    /\ Len(server.pending) + Len(server.log) < MaxDatagrams
    /\ \E p \in ServedSet :
          server' = [server EXCEPT !.pending =
                        Append(@, [sent |-> p,
                                   data |-> ClientSend(PeerOf(server), p, FALSE).data])]
    /\ UNCHANGED << codecVars, spaceVars, clientVars >>

\* Read returns bytes of another origin.
ListenForeign ==
    /\ server.loop = "listening"
    /\ Len(server.pending) + Len(server.log) < MaxDatagrams
    /\ \E data \in ForeignSet :
          /\ server.type = "*TCPServer" => data # << >>
          /\ server' = [server EXCEPT !.pending =
                            Append(@, [sent |-> NilPacket, data |-> data])]
    /\ UNCHANGED << codecVars, spaceVars, clientVars >>

\* Read returns an error and the loop returns.  The TCP loop calls Read on
\* the connection that Accept returned without looking at Accept's error:
\* after a failed Accept (TCPServer.StartListening closes the listener when
\* it returns) the connection is nil and Read panics.
ListenFails ==
    /\ server.loop = "listening"
    /\ \E acceptFails \in BOOLEAN :
          /\ acceptFails => server.type = "*TCPServer"
          /\ server' = [server EXCEPT !.loop =
                            IF acceptFails THEN "crashed" ELSE "returned"]
    /\ UNCHANGED << codecVars, spaceVars, clientVars >>

\* A handler goroutine runs handleIncomingData to its end; the goroutines of
\* different reads run in any order.
HandleIncomingData ==
    /\ server.loop # "crashed"
    /\ \E i \in 1..Len(server.pending) :
          \E h \in { handleIncomingData(server, server.pending[i].sent,
                                        server.pending[i].data) } :
             server' = [server EXCEPT
                           !.pending = Take(@, i - 1) \o Drop(@, i),
                           !.log = Append(@, h),
                           !.loop = IF h.st = PANIC THEN "crashed" ELSE @]
    /\ UNCHANGED << codecVars, spaceVars, clientVars >>

ServerNext ==
    \/ ServerHandle
    \/ StartListening
    \/ ListenSent
    \/ ListenForeign
    \/ ListenFails
    \/ HandleIncomingData

SpecServer == ServerInit /\ [][ServerNext]_vars
----------------------------------------------------------------------------
(***************************************************************************)
(* Properties of the codec, under SpecCodec.                               *)
(***************************************************************************)

\* C1: every call of decodePacket ends with a Packet and no error, or with no
\* Packet and an error; it never panics.
DecodePacketNeverPanics ==
    op = "decodePacket" =>
        /\ out.st \in { OK, ERR }
        /\ (out.st = OK) <=> (out.val.type # "nil")

\* C2: unmarshalling the bytes that marshalling a Message of supported
\* arguments produced succeeds and yields a Message equal to it.
MessageRoundTrip ==
    op = "Message.UnmarshalBinary" =>
        out.st = OK /\ Equals(out.val, input.v)

\* C3: unmarshalling the bytes that marshalling a Bundle produced succeeds and
\* yields a Bundle equal to it, children included.
BundleRoundTrip ==
    op = "Bundle.UnmarshalBinary" =>
        out.st = OK /\ Equals(out.val, input.v)

\* TimeTags are equal when both are immediate, or neither is and they hold
\* the same instant.
SameTimeTag(p, q) ==
    /\ p.Immediate = q.Immediate
    /\ ~p.Immediate => p.time = q.time

\* The instants whose count of seconds since 1900-01-01T00:00:00Z fits 32
\* bits (up to 2036-02-07T06:28:16Z, excluded), apart from the one instant,
\* 1 ns after 1900-01-01T00:00:00Z, that is written as the value 1.
Encodable(t) ==
    /\ AddL(t.sec, unixOSCEpochOffset)[1] \in 0..(Limb - 1)
    /\ ~(AddL(t.sec, unixOSCEpochOffset) = << 0, 0 >> /\ t.nsec = 1)

\* C4 as stated: decodeTimeTag(encodeTimeTag(tt)) succeeds and equals tt, for
\* every TimeTag tt.
TimeTagRoundTrip ==
    op = "decodeTimeTag" =>
        out.st = OK /\ SameTimeTag(out.val, input.v)

\* C4, amended: decodeTimeTag(encodeTimeTag(tt)) succeeds and equals tt for
\* every immediate tt and every non-immediate tt whose instant is encodable.
TimeTagRoundTripEncodable ==
    (op = "decodeTimeTag" /\ (input.v.Immediate \/ Encodable(input.v.time))) =>
        out.st = OK /\ SameTimeTag(out.val, input.v)

\* A non-immediate tag with a sub-second part has made the round trip.
TimeTagRoundTripReached ==
    /\ op = "decodeTimeTag"
    /\ ~input.v.Immediate
    /\ input.v.time.nsec = 500000000
    /\ Encodable(input.v.time)
    /\ out.st = OK
    /\ SameTimeTag(out.val, input.v)

\* C9: decodePacket returns an error for a buffer that is empty or whose
\* length is not a multiple of 4, and for one whose first byte is neither '/'
\* nor '#'; what it decodes from '/' is a Message and from '#' a Bundle.
DecodePacketFraming ==
    op = "decodePacket" =>
        /\ (wire = << >> \/ Len(wire) % 4 # 0) => out.st = ERR
        /\ (wire # << >> /\ wire[1] \notin { ch.slash, ch.hash }) => out.st = ERR
        /\ (out.st = OK /\ wire[1] = ch.slash) => out.val.type = "Message"
        /\ (out.st = OK /\ wire[1] = ch.hash) => out.val.type = "*Bundle"

\* A buffer the network cut to a length that is no multiple of 4, beginning
\* with '/', has been refused.
DecodePacketFramingReached ==
    /\ op = "decodePacket"
    /\ edits > 0
    /\ wire # << >>
    /\ Len(wire) % 4 # 0
    /\ wire[1] = ch.slash
    /\ out.st = ERR

----------------------------------------------------------------------------
(***************************************************************************)
(* Properties of the AddressSpace.                                         *)
(***************************************************************************)

\* C5: no registration is lost.  The method of every Handle call that
\* returned nil is in the registry, and once no Handle call is in progress
\* the registry holds as many methods as Handle calls returned nil.
NoRegistrationLost ==
    /\ \A k \in 1..Len(returned) :
          \E j \in 1..Len(Methods) : Methods[j] = returned[k]
    /\ (\A g \in Goroutines : pc[g] \notin { "append", "store" }) =>
          Len(Methods) = Len(returned)

\* A method with its pattern, its compiled matcher and its handler all set.
Complete(h) ==
    h.AddressPattern # << >> /\ h.Function # 0 /\ ~h.regexp.nil

\* C6: a Dispatch sees one consistent registry.  Every method it tests is
\* complete, and the sequence it has tested when it returns is the registry
\* as it stood at some point during the call.
DispatchSeesOneRegistry ==
    \A g \in Goroutines :
        (frame[g].call = "Dispatch" /\ frame[g].m.type # "nil") =>
            /\ \A j \in 1..Len(tested[g]) : Complete(tested[g][j])
            /\ pc[g] = "idle" => tested[g] \in during[g]

(***************************************************************************)
(* The meaning of an address pattern: the WHOLE address conforms, `?`      *)
(* standing for exactly one character, `*` for zero or more characters and *)
(* {a,b,c} for one of the listed alternatives.                             *)
(***************************************************************************)
\* The alternatives listed in s, the text between the braces.
Listed(s) ==
    { SubSeq(s, i + 1, j - 1) :
        << i, j >> \in
          { ij \in (0..Len(s)) \X (1..(Len(s) + 1)) :
              /\ ij[1] < ij[2]
              /\ ij[1] = 0 \/ s[ij[1]] = ch.comma
              /\ ij[2] = Len(s) + 1 \/ s[ij[2]] = ch.comma
              /\ \A k \in (ij[1] + 1)..(ij[2] - 1) : s[k] # ch.comma } }

RECURSIVE Conforms(_, _)
\* The group that begins the pattern, closed at position close.
ConformsGroup(pattern, address, close) ==
    \E alternative \in Listed(SubSeq(pattern, 2, close - 1)) :
        Conforms(alternative \o Drop(pattern, close), address)

Conforms(pattern, address) ==
    CASE pattern = << >> -> address = << >>
      [] pattern # << >> /\ Head(pattern) = ch.star ->
            \E k \in 0..Len(address) : Conforms(Tail(pattern), Drop(address, k))
      [] pattern # << >> /\ Head(pattern) = ch.qm ->
            address # << >> /\ Conforms(Tail(pattern), Tail(address))
      [] pattern # << >> /\ Head(pattern) = ch.lbrace ->
            ConformsGroup(pattern, address,
                CHOOSE c \in 1..Len(pattern) :
                    /\ pattern[c] = ch.rbrace
                    /\ \A k \in 1..(c - 1) : pattern[k] # ch.rbrace)
      [] OTHER ->
            /\ address # << >>
            /\ Head(address) = Head(pattern)
            /\ Conforms(Tail(pattern), Tail(address))

RECURSIVE Conforming(_, _)
\* The functions of the methods whose pattern the address conforms to, in the
\* order of registration.
Conforming(registry, address) ==
    IF registry = << >> THEN << >>
    ELSE (IF Conforms(Head(registry).AddressPattern, address)
          THEN << Head(registry).Function >> ELSE << >>)
            \o Conforming(Tail(registry), address)

\* C7: Dispatch(m) of a non-nil m calls the handler of every registered method
\* whose pattern matches m.Address exactly once, calls no other handler, and
\* calls them in the order of registration; Dispatch(nil) calls no handler.
DispatchCallsMatchingInOrder ==
    \A g \in Goroutines :
        (frame[g].call = "Dispatch" /\ pc[g] = "idle") =>
            \A registry \in during[g] :
                invoked[g] =
                    IF frame[g].m.type = "nil" THEN << >>
                    ELSE Conforming(registry, frame[g].m.Address)

\* C8: the handler registered for a pattern is called for an address exactly
\* when the whole address conforms to the pattern: /foo/? is called for /foo/1
\* and not for /foo/12, /foo/* for /foo/bar, /a/{x,y,z} for /a/x and /a/y and
\* not for /a/q.
PatternMatchesWholeAddress ==
    \A g \in Goroutines :
        (frame[g].call = "Dispatch" /\ pc[g] = "idle" /\ frame[g].m.type # "nil") =>
            \A registry \in during[g] :
                \A j \in 1..Len(registry) :
                    (\E k \in 1..Len(invoked[g]) :
                        invoked[g][k] = registry[j].Function)
                    <=> Conforms(registry[j].AddressPattern, frame[g].m.Address)

\* C10: a Handle call whose pattern does not compile returns an error and
\* leaves the registry as it was; any other Handle call returns nil and leaves
\* the registry it found with the new method appended; no step of Dispatch
\* changes the registry; and no step removes, moves or changes a method that
\* a returned Handle call registered.
HandleAppendsOrLeaves ==
    [][/\ \A g \in Goroutines :
            /\ (Handle(g) /\ frame'[g].err) => Methods' = Methods
            /\ (HandleStore(g) /\ pc'[g] = "idle") =>
                  Methods' = Append(before[g], frame[g].method)
            /\ (Dispatch(g) \/ DispatchRange(g) \/ DispatchReturn(g)) =>
                  Methods' = Methods
       /\ \A j \in 1..Len(Methods) :
            (\E k \in 1..Len(returned) : returned[k] = Methods[j]) =>
                j <= Len(Methods') /\ Methods'[j] = Methods[j]]_vars

----------------------------------------------------------------------------
(***************************************************************************)
(* Claims about the time tag encoding, the marshalled layouts and the      *)
(* field decoders.                                                         *)
(***************************************************************************)
\* The 8 bytes 00 00 00 00 00 00 00 01.
ImmediateBytes == << 0, 0, 0, 0, 0, 0, 0, 1 >>

\* C11: the immediate sentinel is preserved in both directions.  A TimeTag
\* whose Immediate flag is set encodes to 00 00 00 00 00 00 00 01 whatever
\* its time field holds; decodeTimeTag of those bytes succeeds with the
\* Immediate flag set; NewBundle() has an immediate TimeTag and no elements,
\* so that it marshals to "#bundle" NUL followed by the sentinel.
ImmediateSentinelPreserved ==
    /\ (input.what = "timetag" /\ input.v.Immediate /\ stage # "input")
          => wire = ImmediateBytes
    /\ (op = "decodeTimeTag" /\ wire = ImmediateBytes)
          => (out.st = OK /\ out.val.Immediate)
    /\ NewBundle.TimeTag.Immediate /\ NewBundle.Elements = << >>
    /\ (input.what = "bundle" /\ input.v = NewBundle /\ stage = "wire")
          => wire = bundleString \o ImmediateBytes

\* An immediate TimeTag whose time field is not the zero time has been
\* encoded and decoded again.
ImmediateSentinelReached ==
    /\ input.what = "timetag"
    /\ input.v.Immediate
    /\ input.v.time = T2018
    /\ op = "decodeTimeTag"
    /\ out.st = OK
    /\ out.val.Immediate

\* Sixteen more bits of the binary expansion of r / nanosPerSecond, for
\* 0 <= r < nanosPerSecond: << the bits so far, the remainder >>.
RECURSIVE FractionBits(_, _, _)
FractionBits(r, k, acc) ==
    IF k = 0 THEN << acc, r >>
    ELSE IF 2 * r >= nanosPerSecond
         THEN FractionBits(2 * r - nanosPerSecond, k - 1, 2 * acc + 1)
         ELSE FractionBits(2 * r, k - 1, 2 * acc)

FractionRounded(hi, lo) ==
    Trunc32(AddL(<< hi[1], lo[1] >>,
                 << 0, IF 2 * lo[2] >= nanosPerSecond THEN 1 ELSE 0 >>))

FractionLow(hi) == FractionRounded(hi, FractionBits(hi[2], 16, 0))

\* round(nanos * 2^32 / 1e9) truncated to 32 bits, as two 16-bit limbs.
FixedPointFraction(nanos) == FractionLow(FractionBits(nanos, 16, 0))

\* C12: for a non-immediate TimeTag the low 32 bits of the encoded value are
\* the fixed-point fraction round(nanos * 2^32 / 1e9) truncated to 32 bits,
\* nanos being the nanosecond remainder of the time, and the high 32 bits
\* are the low 32 bits of the Unix seconds plus 2208988800.
FractionIsFixedPoint ==
    (input.what = "timetag" /\ ~input.v.Immediate /\ stage # "input")
        => /\ Word32(SubSeq(wire, 5, 8)) = FixedPointFraction(input.v.time.nsec)
           /\ Word32(SubSeq(wire, 1, 4))
                  = Trunc32(AddL(input.v.time.sec, unixOSCEpochOffset))

\* The part of C13 that does not depend on how the high word is read: 8
\* bytes, a low word that is the same for every time with the same
\* sub-second part and 0 on a whole second, and the two recorded encodings.
TimeTagLowWordAndVectors ==
    /\ Len(wire) = 8
    /\ \A t \in TimeSet :
          t.nsec = input.v.time.nsec
              => SubSeq(encodeTimeTag(NewTimeTag(t)), 5, 8) = SubSeq(wire, 5, 8)
    /\ input.v.time.nsec = 0 => SubSeq(wire, 5, 8) = << 0, 0, 0, 0 >>
    /\ input.v.time = T2018 => wire = << 221, 243, 248, 128, 0, 0, 0, 0 >>
    /\ input.v.time = [T2018 EXCEPT !.nsec = 500000000]
          => wire = << 221, 243, 248, 128, 29, 205, 101, 0 >>

\* C13 as stated: encodeTimeTag of a non-immediate TimeTag for a time t gives
\* 8 big-endian bytes whose high 32-bit word is the number (Unix seconds of
\* t + 2208988800) and whose low word depends on the sub-second part of t
\* alone, 0 on a whole second; 2018-01-01T00:00:00Z gives
\* DD F3 F8 80 00 00 00 00 and that time plus 500 ms DD F3 F8 80 1D CD 65 00.
TimeTagHighWordIsSum ==
    (input.what = "timetag" /\ ~input.v.Immediate /\ stage # "input")
        => /\ TimeTagLowWordAndVectors
           /\ Word32(SubSeq(wire, 1, 4)) = AddL(input.v.time.sec, unixOSCEpochOffset)

\* C13 amended: the high 32-bit word is (Unix seconds of t + 2208988800)
\* reduced modulo 2^32, which is that sum itself exactly when t is on or
\* after 1900-01-01T00:00:00Z and before 2036-02-07T06:28:16Z; the rest as
\* stated.
TimeTagHighWordIsSumMod32 ==
    (input.what = "timetag" /\ ~input.v.Immediate /\ stage # "input")
        => /\ TimeTagLowWordAndVectors
           /\ Word32(SubSeq(wire, 1, 4))
                  = Trunc32(AddL(input.v.time.sec, unixOSCEpochOffset))
           /\ AddL(input.v.time.sec, unixOSCEpochOffset)[1] \in 0..(Limb - 1)
                  => Word32(SubSeq(wire, 1, 4))
                         = AddL(input.v.time.sec, unixOSCEpochOffset)

\* 2018-01-01T00:00:00.5Z has been encoded.
TimeTagVectorReached ==
    /\ input.what = "timetag"
    /\ input.v = NewTimeTag([T2018 EXCEPT !.nsec = 500000000])
    /\ stage = "wire"
    /\ wire = << 221, 243, 248, 128, 29, 205, 101, 0 >>

\* A string followed by its NUL terminator and by NULs up to the next
\* multiple of 4 bytes: 1 to 4 NULs in all.
PaddedString(s) == s \o [j \in 1..(4 - (Len(s) % 4)) |-> 0]

\* A blob: its big-endian 32-bit size, its bytes, and 0 to 3 NULs up to the
\* next multiple of 4 bytes.
PaddedBlob(bs) ==
    << 0, 0, Len(bs) \div 256, Len(bs) % 256 >> \o bs
        \o [j \in 1..((4 - (Len(bs) % 4)) % 4) |-> 0]

\* The tag character of C14's list for a supported argument.
TagCharacter(arg) ==
    CASE arg.kind = "nil" -> ch.N
      [] arg.kind = "int32" -> ch.i
      [] arg.kind = "float32" -> ch.f
      [] arg.kind = "string" -> ch.s
      [] arg.kind = "[]byte" -> ch.b
      [] arg.kind = "bool" -> IF arg.val = << 1 >> THEN ch.T ELSE ch.F
      [] arg.kind = "int64" -> ch.h
      [] arg.kind = "float64" -> ch.d
      [] arg.kind = "TimeTag" -> ch.t

\* The number of payload bytes C14 gives an argument.
PayloadLength(arg) ==
    CASE arg.kind \in { "nil", "bool" } -> 0
      [] arg.kind \in { "int32", "float32" } -> 4
      [] arg.kind \in { "int64", "float64", "TimeTag" } -> 8
      [] arg.kind = "string" -> Len(PaddedString(arg.val))
      [] arg.kind = "[]byte" -> Len(PaddedBlob(arg.val))

\* bytes is the payload of arg as C14 describes it.
IsPayload(arg, bytes) ==
    /\ Len(bytes) = PayloadLength(arg)
    /\ arg.kind = "int32" => Int32Of(Word32(bytes)) = arg.val[1]
    /\ arg.kind \in { "float32", "int64", "float64" } => bytes = arg.val
    /\ arg.kind = "TimeTag" => bytes = encodeTimeTag(TimeTagOf(arg))
    /\ arg.kind = "string" => bytes = PaddedString(arg.val)
    /\ arg.kind = "[]byte" => bytes = PaddedBlob(arg.val)

\* bytes is the payloads of args one after the other.
RECURSIVE ArePayloads(_, _)
ArePayloads(args, bytes) ==
    IF args = << >>
    THEN bytes = << >>
    ELSE /\ Len(bytes) >= PayloadLength(Head(args))
         /\ IsPayload(Head(args), Take(bytes, PayloadLength(Head(args))))
         /\ ArePayloads(Tail(args), Drop(bytes, PayloadLength(Head(args))))

\* The padded address followed by the padded type-tag string of msg.
MessageHeader(msg) ==
    PaddedString(msg.Address)
        \o PaddedString(<< ch.comma >>
               \o [j \in 1..Len(msg.Arguments) |-> TagCharacter(msg.Arguments[j])])

\* C14: marshalling a Message gives exactly the padded NUL-terminated
\* address, the padded NUL-terminated type-tag string (',' and one tag
\* character per argument, in order), and then the payload of each argument
\* in order: nothing for nil and the booleans, four big-endian bytes for
\* int32 and float32, eight for int64, float64 and TimeTag, the padded
\* encodings for strings and blobs.  The empty Message at "/" gives
\* 2F 00 00 00 2C 00 00 00.
MessageLayout ==
    (input.what = "message" /\ stage = "wire")
        => /\ Len(wire) >= Len(MessageHeader(input.v))
           /\ Take(wire, Len(MessageHeader(input.v))) = MessageHeader(input.v)
           /\ ArePayloads(input.v.Arguments,
                          Drop(wire, Len(MessageHeader(input.v))))
           /\ input.v = NewEmptyMessage
                  => wire = << 47, 0, 0, 0, 44, 0, 0, 0 >>

\* A Message with a string and a blob argument has been marshalled.
MessageLayoutReached ==
    /\ input.what = "message"
    /\ stage = "wire"
    /\ Len(input.v.Arguments) = 2
    /\ input.v.Arguments[1].kind = "string"
    /\ input.v.Arguments[2] = GoBytes(<< ch.a, ch.r, 103 >>)

\* bytes begins with a big-endian 32-bit count equal to the length of
\* encoded, followed by encoded.
BeginsWithCounted(encoded, bytes) ==
    /\ Len(bytes) >= 4 + Len(encoded)
    /\ Word32(Take(bytes, 4)) = ToLimbs(Len(encoded))
    /\ SubSeq(bytes, 5, 4 + Len(encoded)) = encoded

\* bytes is, for each element in order, the count and the bytes of the
\* element's own marshalled form.
RECURSIVE AreElements(_, _)
AreElements(elements, bytes) ==
    IF elements = << >>
    THEN bytes = << >>
    ELSE /\ MarshalBinary(Head(elements)).st = OK
         /\ BeginsWithCounted(MarshalBinary(Head(elements)).val, bytes)
         /\ AreElements(Tail(elements),
                        Drop(bytes, 4 + Len(MarshalBinary(Head(elements)).val)))

\* Some child of the bundle fails to marshal.
SomeChildFails(bun) ==
    \E j \in 1..Len(bun.Elements) : MarshalBinary(bun.Elements[j]).st # OK

\* C15: marshalling a Bundle gives exactly the 8 bytes "#bundle" NUL, the 8
\* bytes of the time tag, and for each child in insertion order a big-endian
\* 32-bit count of the child's own marshalled form followed by that form; a
\* Bundle without elements gives 16 bytes; when a child fails to marshal the
\* Bundle fails to marshal and returns no bytes.
BundleLayout ==
    (input.what = "bundle" /\ stage # "input")
        => IF SomeChildFails(input.v)
           THEN op = "MarshalBinary" /\ out.st = ERR /\ out.val = << >>
                    /\ wire = << >>
           ELSE /\ op # "MarshalBinary"
                /\ Len(wire) >= 16
                /\ Take(wire, 8) = << 35, 98, 117, 110, 100, 108, 101, 0 >>
                /\ SubSeq(wire, 9, 16) = encodeTimeTag(input.v.TimeTag)
                /\ AreElements(input.v.Elements, Drop(wire, 16))
                /\ input.v.Elements = << >> => Len(wire) = 16

\* A Bundle whose first child marshals and whose second child, itself a
\* Bundle, does not, has failed to marshal.
BundleLayoutReached ==
    /\ input.what = "bundle"
    /\ Len(input.v.Elements) = 2
    /\ MarshalBinary(input.v.Elements[1]).st = OK
    /\ input.v.Elements[2].type = "*Bundle"
    /\ MarshalBinary(input.v.Elements[2]).st # OK
    /\ op = "MarshalBinary"
    /\ out.st = ERR

\* The argument types C14 lists.
Supported(arg) ==
    arg.kind \in { "nil", "int32", "float32", "string", "[]byte", "bool",
                   "int64", "float64", "TimeTag" }

\* C16: AddArgument(value) with a value of a supported type appends it as
\* the new last argument and changes neither the earlier arguments nor the
\* address; with a value of any other type it returns an error and leaves
\* the Message as it was.  So a Message built with NewMessage and
\* AddArgument never fails to marshal.
AddArgumentFrame ==
    /\ (op = "AddArgument" /\ stage = "input")
          => IF Supported(out.arg)
             THEN /\ out.st = OK
                  /\ input.v.Address = out.msg.Address
                  /\ Len(input.v.Arguments) = Len(out.msg.Arguments) + 1
                  /\ input.v.Arguments[Len(input.v.Arguments)] = out.arg
                  /\ Take(input.v.Arguments, Len(out.msg.Arguments))
                         = out.msg.Arguments
             ELSE out.st = ERR /\ input.v = out.msg
    /\ (input.what = "message" /\ stage # "input") => op # "MarshalBinary"

\* A Message with one argument was handed a Go int, and was marshalled
\* after the call.
AddArgumentFrameReached ==
    /\ input.what = "message"
    /\ stage = "wire"
    /\ op = "AddArgument"
    /\ out.st = ERR
    /\ out.arg = GoInt(7)
    /\ Len(input.v.Arguments) = 1

----------------------------------------------------------------------------
(***************************************************************************)
(* Properties of the clients, under SpecClient.                            *)
(***************************************************************************)
\* Whether the client is connected after the calls of log, as C17 has it:
\* not before any Connect, connected after a Connect that returned no
\* error, not connected after a Disconnect; Send, and a Connect that
\* returned an error, change nothing.
RECURSIVE ConnectedAfter(_)
ConnectedAfter(log) ==
    IF log = << >> THEN FALSE
    ELSE CASE log[Len(log)].call = "Connect" /\ ~log[Len(log)].err -> TRUE
           [] log[Len(log)].call = "Disconnect" -> FALSE
           [] OTHER -> ConnectedAfter(Take(log, Len(log) - 1))

\* C17: for both UDPClient and TCPClient, after every sequence of Connect,
\* Disconnect and Send calls IsConnected() is false before any Connect, true
\* after a Connect that returned no error and false again after Disconnect.
IsConnectedTracksCalls ==
    client.type # "none" => IsConnected(client) = ConnectedAfter(clientLog)

----------------------------------------------------------------------------
(***************************************************************************)
(* Properties of the field decoders, under SpecCodec.                      *)
(***************************************************************************)
\* The tag characters readArguments knows.
KnownTags == { ch.T, ch.F, ch.N, ch.i, ch.f, ch.s, ch.b, ch.h, ch.d, ch.t }

\* C18: readArguments returns an error and no arguments for every type-tag
\* string that does not begin with ',', the empty string (read from a field
\* of NUL bytes) included; for a tag character it does not know or a
\* payload shorter than a tag requires it returns an error as well, and it
\* never returns a partial argument list: whenever it does not succeed it
\* returns an error and no arguments.
ReadArgumentsRejects ==
    op = "readArguments"
        => /\ (out.tags = << >> \/ Head(out.tags) # ch.comma)
                  => (out.st = ERR /\ out.val = << >>)
           /\ (\E j \in 2..Len(out.tags) : out.tags[j] \notin KnownTags)
                  => (out.st = ERR /\ out.val = << >>)
           /\ out.st # OK => (out.st = ERR /\ out.val = << >>)

\* The position of the first NUL of buf; buf has one.
FirstNul(buf) ==
    CHOOSE j \in 1..Len(buf) : buf[j] = 0 /\ \A k \in 1..(j - 1) : buf[k] # 0

\* The positions after the terminator at z up to the next 4-byte boundary.
PaddingAfter(z) == (z + 1)..(((z + 3) \div 4) * 4)

\* C19: decodeString returns an error and no string whenever a byte that
\* pads the string to the next 4-byte boundary is not 0x00, and whenever the
\* input ends before a NUL terminator; when it succeeds it has consumed a
\* multiple of 4 bytes, every padding byte having been read and found 0x00.
DecodeStringChecksPadding ==
    op = "decodeString"
        => IF \A j \in 1..Len(wire) : wire[j] # 0
           THEN out.st = ERR /\ out.val = << >>
           ELSE /\ (\E j \in PaddingAfter(FirstNul(wire)) :
                        j <= Len(wire) /\ wire[j] # 0)
                      => (out.st = ERR /\ out.val = << >>)
                /\ out.st = OK
                      => /\ (Len(wire) - Len(out.rest)) % 4 = 0
                         /\ \A j \in PaddingAfter(FirstNul(wire)) :
                               j <= Len(wire) /\ wire[j] = 0

\* ceil(n / 4) * 4
CeilTo4(n) == ((n + 3) \div 4) * 4

\* The declared length at the head of buf as an unsigned 32-bit number, when
\* it is small enough for the bytes that follow it to be there; else -1.
DeclaredLength(buf) ==
    IF Word32(Take(buf, 4))[1] = 0
           /\ CeilTo4(Word32(Take(buf, 4))[2]) <= Len(buf) - 4
    THEN Word32(Take(buf, 4))[2]
    ELSE -1

\* C20: decodeByteSlice, for every declared length n it reads: for n = 0 it
\* returns an empty blob; otherwise, when ceil(n/4)*4 bytes remain, it
\* consumes that many and returns the first n of them; when fewer remain,
\* as for every declared length that exceeds the remaining bytes, it returns
\* an error.
DecodeByteSliceChecksLength ==
    (op = "decodeByteSlice" /\ Len(wire) >= 4)
        => CASE DeclaredLength(wire) = 0 ->
                    out.st = OK /\ BytesOf(out.val) = << >>
                        /\ out.rest = Drop(wire, 4)
             [] DeclaredLength(wire) > 0 ->
                    /\ out.st = OK
                    /\ out.val = SubSeq(wire, 5, 4 + DeclaredLength(wire))
                    /\ out.rest = Drop(wire, 4 + CeilTo4(DeclaredLength(wire)))
             [] OTHER -> out.st = ERR

----------------------------------------------------------------------------
(***************************************************************************)
(* Properties of unmarshalling, padding and framing.                       *)
(***************************************************************************)
\* bytes is a sequence of counted children each of which decodePacket
\* decodes.
RECURSIVE ChildrenDecode(_)
ChildrenDecode(bytes) ==
    IF bytes = << >> THEN TRUE
    ELSE /\ Len(bytes) >= 4
         /\ Word32(Take(bytes, 4))[1] = 0
         /\ Len(bytes) >= 4 + Word32(Take(bytes, 4))[2]
         /\ decodePacket(SubSeq(bytes, 5, 4 + Word32(Take(bytes, 4))[2])).st = OK
         /\ ChildrenDecode(Drop(bytes, 4 + Word32(Take(bytes, 4))[2]))

\* C21: a failed unmarshal surfaces no partially decoded data.  When
\* decoding a Message fails at any stage, the Message the caller has holds
\* no field decoded before the failure: the receiver of UnmarshalBinary
\* keeps its Address and Arguments, and the Message NewMessageFromData
\* returns is blank.  When decoding a Bundle fails the receiver keeps its
\* TimeTag and Elements, and a Bundle is decoded only if every child is.
FailedUnmarshalLeavesReceiver ==
    /\ (op = "msg.UnmarshalBinary" /\ out.st # OK) => out.val = PreviousMessage
    /\ (op = "NewMessageFromData" /\ out.st = ERR)
          => out.val = Message(<< >>, << >>)
    /\ (op = "bun.UnmarshalBinary" /\ out.st # OK) => out.val = PreviousBundle
    /\ (op = "bun.UnmarshalBinary" /\ out.st = OK)
          => ChildrenDecode(Drop(wire, 16))

\* C22: padTo32Bits(x) is x followed by the smallest number, 0 to 3, of 0x00
\* bytes that makes the length a multiple of 4: the empty sequence stays
\* empty, a sequence whose length is a multiple of 4 is returned unchanged,
\* and padding the result again changes nothing.
PadTo32BitsMinimal ==
    op = "padTo32Bits"
        => /\ Len(out.val) % 4 = 0
           /\ Len(out.val) - Len(wire) \in 0..3
           /\ Take(out.val, Len(wire)) = wire
           /\ \A j \in (Len(wire) + 1)..Len(out.val) : out.val[j] = 0
           /\ wire = << >> => out.val = << >>
           /\ Len(wire) % 4 = 0 => out.val = wire
           /\ padTo32Bits(out.val) = out.val

\* The single byte '/' has been padded to '/' 00 00 00.
PadTo32BitsReached ==
    /\ op = "padTo32Bits"
    /\ wire = << ch.slash >>
    /\ out.val = << ch.slash, 0, 0, 0 >>

\* The decoded packet of a handled read is a Message.
DecodedMessage(e) ==
    /\ e.decoded.st = OK
    /\ e.decoded.val.type \in { "Message", "*Message" }

\* C23: TCP stream framing.  What TCPClient.Send writes for a packet is the
\* big-endian 32-bit byte count of the marshalled packet followed by exactly
\* those bytes; TCPServer.handleIncomingData, given such a frame, decodes the
\* packet from exactly the bytes after the count and, when the packet is a
\* Message, dispatches it to the server's AddressSpace.
TCPStreamFraming ==
    server.type = "*TCPServer" =>
        \A k \in 1..Len(server.log) :
            server.log[k].sent.type # "nil" =>
                /\ server.log[k].data =
                      BigEndian32(ToLimbs(Len(MarshalBinary(server.log[k].sent).val)))
                          \o MarshalBinary(server.log[k].sent).val
                /\ server.log[k].sliced = Drop(server.log[k].data, 4)
                /\ server.log[k].decoded = decodePacket(Drop(server.log[k].data, 4))
                /\ DecodedMessage(server.log[k]) =>
                      server.log[k].dispatched = << server.log[k].decoded.val >>

\* C24: UDPServer.handleIncomingData.  A datagram that decodePacket decodes
\* as a Message is given to Dispatch exactly once, so that every registered
\* handler whose pattern its address conforms to runs; for a datagram that
\* fails to decode or decodes as a Bundle no handler runs; and in every case
\* the listening loop is still there for the next datagram.
UDPDatagramHandling ==
    server.type = "*UDPServer" =>
        /\ \A k \in 1..Len(server.log) :
              /\ server.log[k].decoded.st # PANIC =>
                    server.log[k].decoded = decodePacket(server.log[k].data)
              /\ DecodedMessage(server.log[k]) =>
                    /\ server.log[k].dispatched = << server.log[k].decoded.val >>
                    /\ server.log[k].ran =
                          Conforming(server.methods,
                                     server.log[k].decoded.val.Address)
              /\ ~DecodedMessage(server.log[k]) => server.log[k].ran = << >>
        /\ server.loop # "crashed"

\* The test of the length at the head of decodePacket accepts data: the
\* packet is decoded as it would be without the test.
PassesFramingCheck(data) ==
    /\ data # << >>
    /\ Len(data) % 4 = 0
    /\ decodePacket(data) = decodePacketUnframed(data)

RECURSIVE ChildrenFramed(_)
RECURSIVE ChildFramed(_, _)
\* bytes begins with a child whose count is n: n is a non-zero multiple of 4,
\* the n bytes that follow pass the test of decodePacket, and so do the
\* children of a child that is itself a bundle and the children that follow.
ChildFramed(n, bytes) ==
    /\ n > 0
    /\ n % 4 = 0
    /\ 4 + n <= Len(bytes)
    /\ PassesFramingCheck(SubSeq(bytes, 5, 4 + n))
    /\ bytes[5] = ch.hash => ChildrenFramed(SubSeq(bytes, 21, 4 + n))
    /\ ChildrenFramed(Drop(bytes, 4 + n))

\* The element bytes of a marshalled bundle are framed children.
ChildrenFramed(bytes) ==
    \/ bytes = << >>
    \/ /\ Len(bytes) >= 4
       /\ ChildFramed(Int32Of(Word32(Take(bytes, 4))), bytes)

\* The bytes on the wire are those of a successful MarshalBinary.
Marshalled ==
    /\ input.what \in { "message", "bundle" }
    /\ stage = "wire"
    /\ edits = 0

\* C25: every successful marshal yields a correctly framed packet.  The bytes
\* of a marshalled Message or Bundle are not empty and their number is a
\* multiple of 4; inside a marshalled Bundle the count before every child, at
\* every depth, is a non-zero multiple of 4; so the test of the length in
\* decodePacket rejects neither the packet nor any child of a bundle.
MarshalledIsFramed ==
    Marshalled =>
        /\ wire = MarshalBinary(input.v).val
        /\ wire # << >>
        /\ Len(wire) % 4 = 0
        /\ PassesFramingCheck(wire)
        /\ input.what = "bundle" => ChildrenFramed(Drop(wire, 16))

\* A Bundle of a Message with a blob of three bytes and a Bundle that holds a
\* Message has been marshalled.
MarshalledIsFramedReached ==
    /\ Marshalled
    /\ input.v = Bundle(NewImmediateTimeTag,
                        << Message(<< ch.slash, ch.f, ch.o, ch.o >>,
                                   << GoBytes(<< ch.a, ch.r, 103 >>) >>),
                           Bundle(NewTimeTag([T2018 EXCEPT !.nsec = 500000000]),
                                  << NewEmptyMessage >>) >>)
    /\ Len(wire) = 16 + 4 + 20 + 4 + 28
============================================================================
